---- MODULE Spec2Model ----
(***************************************************************************)
(* A model of the shared-buffer and compute-shader core of g3n-engine:     *)
(*   - gls.BufferRAM, the typed view over mapped GPU memory,               *)
(*   - the TypeSize table,                                                 *)
(*   - gls.SSBO and gls.BufferObjects,                                     *)
(*   - renderer.Coman.                                                     *)
(*                                                                         *)
(* uint32 values are kept at their width.  TLC's integers are 32-bit and   *)
(* signed, so a uint32 is the pair <<hi, lo>> of its two 16-bit halves and *)
(* the arithmetic below is done modulo 2^32 on the halves.                 *)
(***************************************************************************)
EXTENDS Integers, Sequences, FiniteSets, TLC

VARIABLES
    ty,       \* the element type the view is used as an array of
    size,     \* BufferRAM.Size
    mapped,   \* bytes addressable from BufferRAM.Address on (>= size)
    mem,      \* the bytes at Address+0 .. Address+mapped-1
    last,     \* the last BufferRAM call: its arguments, result and accesses
    fault,    \* the process died on an access to unmapped memory
    ssbo,     \* the SSBO objects, by object
    bos,      \* the BufferObjects registry the caller holds
    gs,       \* the graphics driver behind *gls.GLS, and the calls made to it
    cm,       \* the Coman
    call,     \* the last call of the exposed surface and what it returned
    pp        \* a shader source put to Coman.preprocess, and what it returned

ramVars == <<ty, size, mapped, mem, last, fault>>

pipeVars == <<ssbo, bos, gs, cm, call>>

vars == <<ty, size, mapped, mem, last, fault, ssbo, bos, gs, cm, call, pp>>

---------------------------------------------------------------------------
(* uint32 arithmetic on 16-bit halves *)

Half == 256 * 256

\* The uint32 whose value is the small natural n (n < 2^16).
U32(n) == <<0, n>>

\* a + b modulo 2^32.
U32Add(a, b) ==
    LET lo == a[2] + b[2]
        hi == a[1] + b[1] + (lo \div Half)
    IN  <<hi % Half, lo % Half>>

\* a * k modulo 2^32, for a multiplier k below 2^8 (a TypeSize is a byte).
U32Mul(a, k) ==
    LET lo == a[2] * k
        hi == a[1] * k + (lo \div Half)
    IN  <<hi % Half, lo % Half>>

U32Gt(a, b) == a[1] > b[1] \/ (a[1] = b[1] /\ a[2] > b[2])

---------------------------------------------------------------------------
(* The TypeSize table *)

\* unsafe.Sizeof(bool(false)): a Go bool takes one byte.
SizeBoolStd430 == 1
SizeIntStd430 == 4
SizeUintStd430 == 4
SizeFloatStd430 == 4
SizeDoubleStd430 == 8
SizeVec2Std430 == 2 * SizeFloatStd430
SizeVec3Std430 == 3 * SizeFloatStd430
SizeVec4Std430 == 4 * SizeFloatStd430
SizeDvec2Std430 == 2 * SizeDoubleStd430
SizeDvec3Std430 == 3 * SizeDoubleStd430
SizeDvec4Std430 == 4 * SizeDoubleStd430
SizeMat3Std430 == 3 * 3 * SizeFloatStd430
SizeMat4Std430 == 4 * 4 * SizeFloatStd430

\* The element kinds of the constraint BufferType.
BufferType ==
    {"bool", "int32", "uint32", "float32", "float64",
     "math32.Vector2", "math32.Vector3", "math32.Vector4",
     "math32.Matrix3", "math32.Matrix4",
     "math64.Vector2", "math64.Vector3", "math64.Vector4"}

GetTypeSize(T) ==
    CASE T = "bool" -> SizeBoolStd430
      [] T = "int32" -> SizeBoolStd430
      [] T = "uint32" -> SizeBoolStd430
      [] T = "float32" -> SizeBoolStd430
      [] T = "float64" -> SizeBoolStd430
      [] T = "math32.Vector2" -> SizeVec2Std430
      [] T = "math32.Vector3" -> SizeVec3Std430
      [] T = "math32.Vector4" -> SizeVec4Std430
      [] T = "math32.Matrix3" -> SizeMat3Std430
      [] T = "math32.Matrix4" -> SizeMat4Std430
      [] T = "math64.Vector2" -> SizeDvec2Std430
      [] T = "math64.Vector3" -> SizeDvec3Std430
      [] T = "math64.Vector4" -> SizeDvec4Std430
      [] OTHER -> 0

---------------------------------------------------------------------------
(* Values and their in-memory form (little-endian, as on the hosts the     *)
(* engine runs on).  A value is the tuple of its components: one for a     *)
(* scalar, X, Y(, Z(, W)) for a vector.  A bool component is a BOOLEAN, an *)
(* int32 component an integer; a uint32, float32 or float64 component is   *)
(* its bit pattern, the tuple of its 16-bit limbs, most significant first  *)
(* (a float is stored and loaded bit for bit).                             *)

\* The typed accessors: Set<t>, Get<t>, As<t> of BufferRAM; "Vector4" is
\* SetVector4/GetVector4/AsVector4 of gls/buffer.go.
Elems ==
    {"Bool", "Int", "Uint", "Float", "Double", "Vec2", "Vec3", "Vec4",
     "Dvec2", "Dvec3", "Dvec4", "Vector4"}

\* Element types that have a TypeSize and no typed accessor: a view of
\* them is read and written with GetBytes and SetBytes.
Matrices == {"Mat3", "Mat4"}

\* The Go type of the elements.
GoType(t) ==
    CASE t = "Bool" -> "bool"
      [] t = "Int" -> "int32"
      [] t = "Uint" -> "uint32"
      [] t = "Float" -> "float32"
      [] t = "Double" -> "float64"
      [] t = "Vec2" -> "math32.Vector2"
      [] t = "Vec3" -> "math32.Vector3"
      [] t \in {"Vec4", "Vector4"} -> "math32.Vector4"
      [] t = "Mat3" -> "math32.Matrix3"
      [] t = "Mat4" -> "math32.Matrix4"
      [] t = "Dvec2" -> "math64.Vector2"
      [] t = "Dvec3" -> "math64.Vector3"
      [] t = "Dvec4" -> "math64.Vector4"

\* The TypeSize each accessor passes to its bounds check and multiplies
\* the index by.
ElemSize(t) ==
    CASE t = "Bool" -> SizeBoolStd430
      [] t = "Int" -> SizeIntStd430
      [] t = "Uint" -> SizeUintStd430
      [] t = "Float" -> SizeFloatStd430
      [] t = "Double" -> SizeDoubleStd430
      [] t = "Vec2" -> SizeVec2Std430
      [] t = "Vec3" -> SizeVec3Std430
      [] t = "Vec4" -> SizeVec4Std430
      [] t = "Dvec2" -> SizeDvec2Std430
      [] t = "Dvec3" -> SizeDvec3Std430
      [] t = "Dvec4" -> SizeDvec4Std430
      [] t = "Vector4" -> 4 * SizeFloatStd430

\* Number of components an accessor stores or loads.
Comps(t) ==
    CASE t \in {"Vec2", "Dvec2"} -> 2
      [] t \in {"Vec3", "Dvec3"} -> 3
      [] t \in {"Vec4", "Dvec4", "Vector4"} -> 4
      [] OTHER -> 1

\* Bytes one component's store or load touches: the pointer is cast to
\* *int32 (bool, int32), *uint32, *float32 or *float64.
Width(t) ==
    IF t \in {"Double", "Dvec2", "Dvec3", "Dvec4"} THEN SizeDoubleStd430
    ELSE SizeFloatStd430

\* Distance between the components of a vector (k*SizeFloatStd430 or
\* k*SizeDoubleStd430).
Stride(t) == Width(t)

Kind(t) ==
    CASE t = "Bool" -> "bool"
      [] t = "Int" -> "int"
      [] OTHER -> "bits"

\* The four bytes of an int32, two's complement.
EncI32(v) ==
    << v % 256, (v \div 256) % 256, (v \div (256 * 256)) % 256,
       (v \div (256 * 256 * 256)) % 256 >>

DecI32(bs) ==
    bs[1] + 256 * bs[2] + 256 * 256 * bs[3]
      + 256 * 256 * 256 * (IF bs[4] >= 128 THEN bs[4] - 256 ELSE bs[4])

\* The bytes of a bit pattern given as limbs, most significant limb first.
EncLimbs(c) ==
    [j \in 1..(2 * Len(c)) |->
        LET l == c[Len(c) - ((j - 1) \div 2)]
        IN  IF j % 2 = 1 THEN l % 256 ELSE l \div 256]

DecLimbs(bs) ==
    [m \in 1..(Len(bs) \div 2) |->
        LET j == (Len(bs) \div 2) - m
        IN  bs[2 * j + 1] + 256 * bs[2 * j + 2]]

\* What a component store writes.
EncComp(t, c) ==
    CASE Kind(t) = "bool" -> IF c THEN EncI32(1) ELSE EncI32(0)
      [] Kind(t) = "int" -> EncI32(c)
      [] OTHER -> EncLimbs(c)

\* What a component load returns.
DecComp(t, bs) ==
    CASE Kind(t) = "bool" -> DecI32(bs) = 1
      [] Kind(t) = "int" -> DecI32(bs)
      [] OTHER -> DecLimbs(bs)

---------------------------------------------------------------------------
(* BufferRAM over the memory m (a sequence: m[k+1] is the byte at          *)
(* Address+k), of which S bytes are the view and M >= S are addressable.   *)

NoAccess == [off |-> U32(0), len |-> U32(0)]

\* n bytes of m from byte offset p on.
Bytes(m, p, n) == [k \in 1..n |-> m[p + k]]

\* BufferRAM.GetBytes: the slice it returns, as offset and length, or nil.
GetBytes(S, index, length) ==
    IF U32Gt(U32Add(index, length), U32(S))
    THEN [nil |-> TRUE, off |-> U32(0), len |-> U32(0)]
    ELSE [nil |-> FALSE, off |-> index, len |-> length]

\* BufferRAM.SetBytes.
SetBytes(m, S, M, index, data) ==
    IF U32Gt(U32Add(index, U32(Len(data))), U32(S))
    THEN [err |-> TRUE, fault |-> FALSE, mem |-> m, acc |-> NoAccess]
    ELSE IF index[1] > 0 \/ index[2] + Len(data) > M
    THEN [err |-> FALSE, fault |-> TRUE, mem |-> m,
          acc |-> [off |-> index, len |-> U32(Len(data))]]
    ELSE [err |-> FALSE, fault |-> FALSE,
          mem |-> [k \in 1..Len(m) |->
                     IF k - 1 >= index[2] /\ k - 1 < index[2] + Len(data)
                     THEN data[k - index[2]] ELSE m[k]],
          acc |-> [off |-> index, len |-> U32(Len(data))]]

\* BufferRAM.get.
get(S, index, typeSize) ==
    LET data == GetBytes(S, U32Mul(index, typeSize), U32(typeSize))
    IN  [err |-> data.nil, data |-> data]

\* The factor of the index in a setter's bounds check: the element size,
\* and vec4size+1 in SetVector4.
CheckFactor(t) == IF t = "Vector4" THEN 4 * SizeFloatStd430 + 1 ELSE ElemSize(t)

\* The end of the bytes an accessor touches when it starts at offset p.
Extent(t, p) == p + (Comps(t) - 1) * Stride(t) + Width(t)

\* Load with every component read at the offset of the first.
LoadFirst(m, t, p) ==
    [c \in 1..Comps(t) |-> DecComp(t, Bytes(m, p, Width(t)))]

\* The value whose components lie from offset p on.
Load(m, t, p) ==
    [c \in 1..Comps(t) |-> DecComp(t, Bytes(m, p + (c - 1) * Stride(t), Width(t)))]

\* m with the components of v stored from offset p on.
Store(m, t, p, v) ==
    [k \in 1..Len(m) |->
        IF k - 1 >= p /\ k - 1 < Extent(t, p)
        THEN EncComp(t, v[((k - 1 - p) \div Stride(t)) + 1])[((k - 1 - p) % Stride(t)) + 1]
        ELSE m[k]]

\* BufferRAM.SetBool, SetInt, SetUint, SetFloat, SetDouble, SetVec2/3/4,
\* SetDvec2/3/4 and SetVector4: the check, then the stores through the
\* raw pointer.  A store to memory that is not addressable kills the process.
Set(m, S, M, t, index, v) ==
    IF U32Gt(U32Mul(index, CheckFactor(t)), U32(S))
    THEN [err |-> TRUE, fault |-> FALSE, mem |-> m, acc |-> NoAccess]
    ELSE LET prod == U32Mul(index, ElemSize(t))
             p == prod[2]
             acc == [off |-> prod, len |-> U32(Extent(t, 0))]
         IN  IF prod[1] > 0 \/ Extent(t, p) > M
             THEN [err |-> FALSE, fault |-> TRUE, mem |-> m, acc |-> acc]
             ELSE [err |-> FALSE, fault |-> FALSE, mem |-> Store(m, t, p, v),
                   acc |-> acc]

\* BufferRAM.GetBool, ..., GetDvec4 and GetVector4: get (GetBytes in
\* GetVector4), then the loads through pointers into the slice.
Get(m, S, M, t, index) ==
    LET r == get(S, index, ElemSize(t))
        p == r.data.off[2]
        acc == [off |-> r.data.off, len |-> U32(Extent(t, 0))]
    IN  IF r.err
        THEN [err |-> TRUE, fault |-> FALSE, val |-> <<>>, acc |-> NoAccess]
        ELSE IF r.data.off[1] > 0 \/ Extent(t, p) > M
        THEN [err |-> FALSE, fault |-> TRUE, val |-> <<>>, acc |-> acc]
        ELSE [err |-> FALSE, fault |-> FALSE, val |-> Load(m, t, p), acc |-> acc]

\* The components of the element at offset i that the iterator cannot
\* load: &_raw[i+k*stride] is past the slice (Go panics), or the load
\* through it leaves the addressable memory.
BadComps(S, M, t, i) ==
    {k \in 0..(Comps(t) - 1) :
        i + k * Stride(t) >= S \/ i + k * Stride(t) + Width(t) > M}

MinOf(s) == CHOOSE x \in s : \A y \in s : x <= y

\* The loop of BufferRAM.AsBool, ..., AsDvec4 and AsVector4, from byte
\* offset i and element number index on; out holds the pairs yielded so
\* far, reach the end of the bytes loaded so far.  The consumer returns
\* false on its stop-th pair (never, when stop = 0).
RECURSIVE IterLoop(_, _, _, _, _, _, _, _, _)
IterLoop(m, S, M, t, stop, i, index, out, reach) ==
    IF i >= S
    THEN [pairs |-> out, outcome |-> "done", reach |-> reach]
    ELSE IF BadComps(S, M, t, i) # {}
    THEN LET k == MinOf(BadComps(S, M, t, i))
         IN  [pairs |-> out,
              outcome |-> IF i + k * Stride(t) >= S THEN "panic" ELSE "fault",
              reach |-> IF k = 0 THEN reach ELSE i + (k - 1) * Stride(t) + Width(t)]
    ELSE LET out2 == Append(out, <<index, Load(m, t, i)>>)
         IN  IF stop = Len(out2)
             THEN [pairs |-> out2, outcome |-> "stopped", reach |-> Extent(t, i)]
             ELSE IterLoop(m, S, M, t, stop, i + ElemSize(t), index + 1, out2,
                           Extent(t, i))

\* Ranging over the sequence As<t>() returns: every call of the returned
\* function starts with i, index = 0, 0.
As(m, S, M, t, stop) == IterLoop(m, S, M, t, stop, 0, 0, <<>>, 0)

---------------------------------------------------------------------------
(* The inputs the view is exercised with *)

\* View sizes: one smaller than every vector and no multiple of 4, and one
\* that holds every element type, a multiple of 4 and 8 but not of 12, 16,
\* 24 or 32.
Sizes == {6, 40}

\* Addressable bytes past the end of the view, when there are any.
MaxPad == 32

\* Largest number of pairs after which the consumer of an iterator stops.
MaxStop == 1

F32a == <<16256, 0>>
F32b == <<49184, 1>>
F64a == <<16368, 0, 0, 1>>
F64b == <<49156, 0, 2, 0>>

Vals(t) ==
    CASE t = "Bool" -> {<<TRUE>>, <<FALSE>>}
      [] t = "Int" -> {<<1>>, <<-2>>}
      [] t = "Uint" -> {<<<<0, 1>>>>, <<<<65535, 65534>>>>}
      [] t = "Float" -> {<<F32a>>, <<F32b>>}
      [] t = "Double" -> {<<F64a>>, <<F64b>>}
      [] t = "Vec2" -> {<<F32a, F32b>>, <<F32b, F32b>>}
      [] t = "Vec3" -> {<<F32a, F32b, F32a>>, <<F32b, F32b, F32a>>}
      [] t \in {"Vec4", "Vector4"} ->
            {<<F32a, F32b, F32a, F32b>>, <<F32b, F32a, F32a, F32a>>}
      [] t = "Dvec2" -> {<<F64a, F64b>>, <<F64b, F64b>>}
      [] t = "Dvec3" -> {<<F64a, F64b, F64a>>, <<F64b, F64b, F64a>>}
      [] t = "Dvec4" -> {<<F64a, F64b, F64a, F64b>>, <<F64b, F64a, F64a, F64a>>}

\* 2^30 (its product with 4, 8, 12, ... wraps to 0) and 2^32 - 1.
WrapIndex == <<16384, 0>>
MaxUint32 == <<65535, 65535>>

\* Element indices: the first two, the last one the view holds all of, the
\* two after it, and two whose byte offset does not fit 32 bits.
Indices(S, t) ==
    {U32(0), U32(1), U32(S \div ElemSize(t)), U32((S \div ElemSize(t)) + 1),
     WrapIndex, MaxUint32}
        \cup (IF S >= ElemSize(t) THEN {U32((S \div ElemSize(t)) - 1)} ELSE {})

\* (offset, length) pairs for GetBytes.
ByteRanges(S) ==
    {<<U32(0), U32(S)>>, <<U32(1), U32(S)>>, <<U32(S), U32(0)>>,
     <<MaxUint32, U32(2)>>, <<U32(1), MaxUint32>>}

\* (offset, data) pairs for SetBytes.
ByteWrites(S) ==
    {<<U32(0), <<170, 187>>>>, <<U32(S - 1), <<170, 187>>>>,
     <<MaxUint32, <<170, 187>>>>}

NoCall ==
    [op |-> "none", idx |-> U32(0), arg |-> <<>>, err |-> FALSE, ret |-> <<>>,
     acc |-> NoAccess, outcome |-> "ok"]

---------------------------------------------------------------------------
(* The view as a state machine: one action per BufferRAM call *)

ViewInit ==
    /\ ty \in Elems \cup Matrices
    /\ size \in Sizes
    /\ mapped \in {size, size + MaxPad}
    /\ mem = [k \in 1..mapped |-> 0]
    /\ last = NoCall
    /\ fault = FALSE

SetOp ==
    /\ ~fault
    /\ ty \in Elems
    /\ \E index \in Indices(size, ty), v \in Vals(ty) :
        \E r \in {Set(mem, size, mapped, ty, index, v)} :
            /\ mem' = r.mem
            /\ fault' = r.fault
            /\ last' = [op |-> "Set", idx |-> index, arg |-> v, err |-> r.err,
                        ret |-> <<>>, acc |-> r.acc,
                        outcome |-> IF r.fault THEN "fault" ELSE "ok"]
    /\ UNCHANGED <<ty, size, mapped>>
    /\ UNCHANGED <<pipeVars, pp>>

GetOp ==
    /\ ~fault
    /\ ty \in Elems
    /\ \E index \in Indices(size, ty) :
        \E r \in {Get(mem, size, mapped, ty, index)} :
            /\ fault' = r.fault
            /\ last' = [op |-> "Get", idx |-> index, arg |-> <<>>, err |-> r.err,
                        ret |-> r.val, acc |-> r.acc,
                        outcome |-> IF r.fault THEN "fault" ELSE "ok"]
    /\ UNCHANGED <<ty, size, mapped, mem>>
    /\ UNCHANGED <<pipeVars, pp>>

AsOp ==
    /\ ~fault
    /\ ty \in Elems
    /\ \E stop \in 0..MaxStop :
        \E r \in {As(mem, size, mapped, ty, stop)} :
            /\ fault' = (r.outcome = "fault")
            /\ last' = [op |-> "As", idx |-> U32(0), arg |-> stop, err |-> FALSE,
                        ret |-> r.pairs,
                        acc |-> [off |-> U32(0), len |-> U32(r.reach)],
                        outcome |-> r.outcome]
    /\ UNCHANGED <<ty, size, mapped, mem>>
    /\ UNCHANGED <<pipeVars, pp>>

GetBytesOp ==
    /\ ~fault
    /\ \E rg \in ByteRanges(size) :
        \E r \in {GetBytes(size, rg[1], rg[2])} :
            last' = [op |-> "GetBytes", idx |-> rg[1], arg |-> rg[2],
                     err |-> r.nil, ret |-> <<>>,
                     acc |-> [off |-> r.off, len |-> r.len], outcome |-> "ok"]
    /\ UNCHANGED <<ty, size, mapped, mem, fault>>
    /\ UNCHANGED <<pipeVars, pp>>

SetBytesOp ==
    /\ ~fault
    /\ \E w \in ByteWrites(size) :
        \E r \in {SetBytes(mem, size, mapped, w[1], w[2])} :
            /\ mem' = r.mem
            /\ fault' = r.fault
            /\ last' = [op |-> "SetBytes", idx |-> w[1], arg |-> w[2],
                        err |-> r.err, ret |-> <<>>, acc |-> r.acc,
                        outcome |-> IF r.fault THEN "fault" ELSE "ok"]
    /\ UNCHANGED <<ty, size, mapped>>
    /\ UNCHANGED <<pipeVars, pp>>

GetTypeSizeOp ==
    /\ ~fault
    /\ LET T == GoType(ty) IN
        last' = [op |-> "GetTypeSize", idx |-> U32(0), arg |-> T, err |-> FALSE,
                 ret |-> <<GetTypeSize(T)>>, acc |-> NoAccess, outcome |-> "ok"]
    /\ UNCHANGED <<ty, size, mapped, mem, fault>>
    /\ UNCHANGED <<pipeVars, pp>>

---------------------------------------------------------------------------
(* The graphics driver behind *gls.GLS, as far as the calls made here      *)
(* show: g is its state, g.log the calls made since the log was cleared.   *)

\* Buffer objects of the process and the indexed binding points in use.
NBuf == 2
MaxBinding == 1
BufIds == 1..NBuf
Bindings == 0..MaxBinding

\* A storage byte nothing was uploaded to, and one uploaded from memory
\* past the end of the payload.
Uninit == 255 + 1
Beyond == 255 + 2

Ev(c, id, a, b) == [call |-> c, id |-> id, a |-> a, b |-> b]

NoStorage == [alloc |-> FALSE, size |-> 0, data |-> <<>>]

GSInit ==
    [target |-> 0, base |-> [i \in Bindings |-> 0],
     store |-> [id \in BufIds |-> NoStorage], mapped |-> {}, deleted |-> {},
     program |-> 0, log |-> <<>>]

BindBuffer(g, id) ==
    [g EXCEPT !.target = id, !.log = Append(@, Ev("BindBuffer", id, 0, 0))]

\* glNamedBufferData: new storage of size bytes, filled from size bytes at
\* the payload pointer unless that is NULL.  The event's b is the number
\* of bytes read through the pointer.
NamedBufferData(g, id, sz, payload) ==
    [g EXCEPT
        !.store[id] =
            [alloc |-> TRUE, size |-> sz,
             data |-> [k \in 1..sz |->
                         IF payload.nil THEN Uninit
                         ELSE IF k <= Len(payload.bytes) THEN payload.bytes[k]
                         ELSE Beyond]],
        !.mapped = @ \ {id},
        !.log = Append(@, Ev("NamedBufferData", id, sz, IF payload.nil THEN 0 ELSE sz))]

BindBufferBase(g, index, id) ==
    [g EXCEPT !.target = id, !.base[index] = id,
              !.log = Append(@, Ev("BindBufferBase", id, index, 0))]

\* Whether glMapNamedBuffer can succeed: the buffer exists, has storage
\* and is not mapped already.
CanMap(g, id) ==
    /\ id \notin g.deleted
    /\ g.store[id].alloc
    /\ g.store[id].size > 0
    /\ id \notin g.mapped

\* glMapNamedBuffer; ok is the driver's answer (a pointer, or 0).
MapNamedBuffer(g, id, ok) ==
    [g EXCEPT !.mapped = IF ok THEN @ \cup {id} ELSE @,
              !.log = Append(@, Ev("MapNamedBuffer", id, IF ok THEN 1 ELSE 0, 0))]

UnmapNamedBuffer(g, id) ==
    [g EXCEPT !.mapped = @ \ {id},
              !.log = Append(@, Ev("UnmapNamedBuffer", id, 0, 0))]

\* glDeleteBuffers: the name is gone, with its storage, its mapping and
\* its bindings.
DeleteBuffers(g, id) ==
    [g EXCEPT !.deleted = @ \cup {id},
              !.store[id] = NoStorage,
              !.mapped = @ \ {id},
              !.target = IF @ = id THEN 0 ELSE @,
              !.base = [i \in Bindings |-> IF @[i] = id THEN 0 ELSE @[i]],
              !.log = Append(@, Ev("DeleteBuffers", id, 0, 0))]

MemoryBarrier(g) == [g EXCEPT !.log = Append(@, Ev("MemoryBarrier", 0, 0, 0))]

DispatchCompute(g, x, y, z) ==
    [g EXCEPT !.log = Append(@, Ev("DispatchCompute", x, y, z))]

UseProgram(g, prog) ==
    [g EXCEPT !.program = prog, !.log = Append(@, Ev("UseProgram", prog, 0, 0))]

---------------------------------------------------------------------------
(* gls.SSBO.  An SSBO object s is the record of its fields; an error is    *)
(* the sequence of the errors joined in it, nil the empty sequence.        *)

NilData == [nil |-> TRUE, bytes |-> <<>>]

\* The error SSBO.Process builds: its text names the buffer id.
MapError(id) == [what |-> "glMapNamedBuffer", id |-> id]

\* errors.Join: the non-nil errors of both, in order.
Join(e1, e2) == e1 \o e2

\* The user's callback, called with the view and deltaTime: the event's a
\* is the view's Size, b is deltaTime.  A callback returns or panics.
SSBOCallback(g, s, viewSize, deltaTime) ==
    [g EXCEPT !.log = Append(@, Ev("SSBOCallback", s.BufferID, viewSize, deltaTime))]

\* SSBO.Bind that leaves the pending payload in place.
SSBOBindKeeps(g, s) ==
    LET g1 == BindBuffer(g, s.BufferID)
        g2 == NamedBufferData(g1, s.BufferID, s.Size, s.initialData)
        g3 == BindBufferBase(g2, s.BindingIndex, s.BufferID)
    IN  [g |-> g3, s |-> s, err |-> <<>>]

\* SSBO.Bind that allocates as many bytes as the pending payload holds.
SSBOBindWhole(g, s) ==
    LET g1 == BindBuffer(g, s.BufferID)
        g2 == NamedBufferData(g1, s.BufferID,
                              IF s.initialData.nil THEN s.Size
                              ELSE Len(s.initialData.bytes), s.initialData)
        g3 == BindBufferBase(g2, s.BindingIndex, s.BufferID)
    IN  [g |-> g3, s |-> [s EXCEPT !.initialData = NilData], err |-> <<>>]

\* SSBO.Bind.
SSBOBind(g, s) ==
    LET g1 == BindBuffer(g, s.BufferID)
        g2 == NamedBufferData(g1, s.BufferID, s.Size, s.initialData)
        g3 == BindBufferBase(g2, s.BindingIndex, s.BufferID)
    IN  [g |-> g3, s |-> [s EXCEPT !.initialData = NilData], err |-> <<>>]

\* SSBO.Process without the test of the pointer.
SSBOProcessUnguarded(g, s, deltaTime, ok, panics) ==
    LET g1 == BindBuffer(g, s.BufferID)
        g2 == MapNamedBuffer(g1, s.BufferID, ok)
        g3 == SSBOCallback(g2, s, s.Size, deltaTime)
        g4 == UnmapNamedBuffer(g3, s.BufferID)
    IN  IF panics THEN [g |-> g3, err |-> <<>>, panic |-> TRUE]
        ELSE [g |-> BindBuffer(g4, 0),
              err |-> IF ok THEN <<>> ELSE <<MapError(s.BufferID)>>,
              panic |-> FALSE]

\* SSBO.Process with the buffer unmapped before the callback is called.
SSBOProcessEarlyUnmap(g, s, deltaTime, ok, panics) ==
    LET g1 == BindBuffer(g, s.BufferID)
        g2 == MapNamedBuffer(g1, s.BufferID, ok)
    IN  IF ok
        THEN LET g3 == UnmapNamedBuffer(g2, s.BufferID)
                 g4 == SSBOCallback(g3, s, s.Size, deltaTime)
             IN  IF panics THEN [g |-> g4, err |-> <<>>, panic |-> TRUE]
                 ELSE [g |-> BindBuffer(g4, 0), err |-> <<>>, panic |-> FALSE]
        ELSE [g |-> g2, err |-> <<MapError(s.BufferID)>>, panic |-> FALSE]

\* SSBO.Process; ok is what the driver answers to the map call, panics
\* whether the callback panics in this call.  Nothing here recovers a
\* panic: it leaves Process at the call of the callback.
SSBOProcess(g, s, deltaTime, ok, panics) ==
    LET g1 == BindBuffer(g, s.BufferID)
        g2 == MapNamedBuffer(g1, s.BufferID, ok)
    IN  IF ok
        THEN LET g3 == SSBOCallback(g2, s, s.Size, deltaTime)
                 g4 == UnmapNamedBuffer(g3, s.BufferID)
             IN  IF panics THEN [g |-> g3, err |-> <<>>, panic |-> TRUE]
                 ELSE [g |-> BindBuffer(g4, 0), err |-> <<>>, panic |-> FALSE]
        ELSE [g |-> g2, err |-> <<MapError(s.BufferID)>>, panic |-> FALSE]

\* SSBO.Delete.
SSBODelete(g, s) == DeleteBuffers(g, s.BufferID)

---------------------------------------------------------------------------
(* gls.BufferObjects: a registry is a function from keys to SSBO objects   *)
(* (an object is named by its place in the table objs).                    *)

\* The orders a range over a Go map can take.
Orders(keys) ==
    {o \in [1..Cardinality(keys) -> keys] :
        \A i, j \in 1..Cardinality(keys) : i # j => o[i] # o[j]}

\* BufferObjects.Set that files the buffer under its binding index.
RegSetByBinding(objs, reg, o) ==
    [k \in DOMAIN reg \cup {objs[o].BindingIndex} |->
        IF k = objs[o].BindingIndex THEN o ELSE reg[k]]

\* BufferObjects.Set.
RegSet(objs, reg, o) ==
    [k \in DOMAIN reg \cup {objs[o].BufferID} |->
        IF k = objs[o].BufferID THEN o ELSE reg[k]]

\* BufferObjects.Unset.
RegUnset(reg, id) == [k \in DOMAIN reg \ {id} |-> reg[k]]

\* BufferObjects.Add.
RegAdd(reg, other) ==
    [k \in DOMAIN reg \cup DOMAIN other |->
        IF k \in DOMAIN other THEN other[k] ELSE reg[k]]

\* BufferObjects.Equals that compares the sizes only.
RegEqualsSize(objs, b, other) == Cardinality(DOMAIN b) = Cardinality(DOMAIN other)

\* BufferObjects.Equals (both receivers non-nil, as taken of struct fields).
RegEquals(objs, b, other) ==
    IF Cardinality(DOMAIN b) # Cardinality(DOMAIN other) THEN FALSE
    ELSE \A k \in DOMAIN b :
            /\ k \in DOMAIN other
            /\ objs[b[k]].BufferID = objs[other[k]].BufferID

\* BufferObjects.Bind, ranging over the map in the order given.
RECURSIVE RegBind(_, _, _, _, _)
RegBind(g, objs, reg, order, err) ==
    IF order = <<>> THEN [g |-> g, objs |-> objs, err |-> err]
    ELSE LET o == reg[Head(order)]
             r == SSBOBind(g, objs[o])
         IN  RegBind(r.g, [objs EXCEPT ![o] = r.s], reg, Tail(order),
                     Join(err, r.err))

\* BufferObjects.Process that returns at the first entry that fails.
RECURSIVE RegProcessShort(_, _, _, _, _, _, _, _)
RegProcessShort(g, objs, reg, order, oks, bad, deltaTime, err) ==
    IF order = <<>> \/ err # <<>> THEN [g |-> g, err |-> err, panic |-> FALSE]
    ELSE LET o == reg[Head(order)]
             r == SSBOProcess(g, objs[o], deltaTime,
                              Head(order) \in oks /\ CanMap(g, objs[o].BufferID),
                              Head(order) \in bad)
         IN  IF r.panic THEN [g |-> r.g, err |-> err, panic |-> TRUE]
             ELSE RegProcessShort(r.g, objs, reg, Tail(order), oks, bad,
                                  deltaTime, Join(err, r.err))

\* BufferObjects.Process, ranging over the map in the order given; oks are
\* the keys whose map call the driver answers with a pointer, bad those
\* whose callback panics.  A panic leaves the loop.
RECURSIVE RegProcess(_, _, _, _, _, _, _, _)
RegProcess(g, objs, reg, order, oks, bad, deltaTime, err) ==
    IF order = <<>> THEN [g |-> g, err |-> err, panic |-> FALSE]
    ELSE LET o == reg[Head(order)]
             r == SSBOProcess(g, objs[o], deltaTime,
                              Head(order) \in oks /\ CanMap(g, objs[o].BufferID),
                              Head(order) \in bad)
         IN  IF r.panic THEN [g |-> r.g, err |-> err, panic |-> TRUE]
             ELSE RegProcess(r.g, objs, reg, Tail(order), oks, bad, deltaTime,
                             Join(err, r.err))

---------------------------------------------------------------------------
(* Shader text.  A source is a sequence of tokens: a piece of text, the    *)
(* index parameter, a "#version" or "#define" line, or one match of        *)
(* rexInclude, "#include <s>" or "#include <s>[q]" (q = "" for the first). *)
(* The value of a define is the sequence of its characters.                *)

Tok(k, s, q, v) == [k |-> k, s |-> s, q |-> q, v |-> v]
Txt(s) == Tok("txt", s, "", <<>>)
Inc(name) == Tok("inc", name, "", <<>>)
IncN(name, q) == Tok("inc", name, q, <<>>)
NL == Txt("\n")
\* The token indexParameter stands for.
IndexParameter == Tok("idx", "", "", <<>>)

Digits == <<"0", "1", "2", "3", "4", "5", "6", "7", "8", "9">>

IsDigit(c) == \E d \in 1..10 : Digits[d] = c
DigitVal(c) == (CHOOSE d \in 1..10 : Digits[d] = c) - 1

RECURSIVE ParseDigits(_, _)
ParseDigits(cs, acc) ==
    IF cs = <<>> THEN acc ELSE ParseDigits(Tail(cs), 10 * acc + DigitVal(Head(cs)))

\* strconv.Atoi on the characters cs: an optional sign, then decimal digits.
Atoi(cs) ==
    LET signed == cs # <<>> /\ Head(cs) \in {"+", "-"}
        ds == IF signed THEN Tail(cs) ELSE cs
    IN  IF ds = <<>> \/ \E i \in 1..Len(ds) : ~IsDigit(ds[i])
        THEN [err |-> TRUE, n |-> 0]
        ELSE [err |-> FALSE,
              n |-> IF signed /\ Head(cs) = "-" THEN 0 - ParseDigits(ds, 0)
                    ELSE ParseDigits(ds, 0)]

\* strconv.Itoa, for the repetition numbers that occur (below 10).
Itoa(i) == Digits[i + 1]

\* strings.Replace(source, old, new, -1) where old is one token's text.
RECURSIVE ReplaceTok(_, _, _)
ReplaceTok(source, old, new) ==
    IF source = <<>> THEN <<>>
    ELSE (IF Head(source) = old THEN new ELSE <<Head(source)>>)
            \o ReplaceTok(Tail(source), old, new)

\* incSource repeated n times, the index parameter left in place.
RECURSIVE RepeatUnindexed(_, _, _)
RepeatUnindexed(incSource, i, n) ==
    IF i >= n THEN <<>> ELSE incSource \o RepeatUnindexed(incSource, i + 1, n)

\* incSource repeated n times, the index parameter replaced by 0, 1, ...
RECURSIVE Repeat(_, _, _)
Repeat(incSource, i, n) ==
    IF i >= n THEN <<>>
    ELSE ReplaceTok(incSource, IndexParameter, <<Txt(Itoa(i))>>)
            \o Repeat(incSource, i + 1, n)

\* The included source without the line skipped before it.
NoSkipLine(incSource) == incSource

\* "Skip line": the included source, a newline before it.
SkipLine(incSource) == <<NL>> \o incSource

\* Deepest nesting of includes followed; beyond it the expansion is taken
\* not to return.
MaxDepth == 3

\* Coman.processIncludes.  err is "" for nil.
RECURSIVE processIncludes(_, _, _, _)
RECURSIVE ExpandMatches(_, _, _, _, _, _)

\* Coman.processIncludes that returns an error at the deepest nesting.
processIncludesGuarded(includes, source, defines, fuel) ==
    LET matches == SelectSeq(source, LAMBDA t : t.k = "inc")
    IN  IF Len(matches) = 0 THEN [err |-> "", out |-> source]
        ELSE IF fuel = 0 THEN [err |-> "Include cycle", out |-> <<>>]
        ELSE ExpandMatches(includes, source, matches, 1, defines, fuel)

ExpandMatches(includes, source, matches, j, defines, fuel) ==
    IF j > Len(matches) THEN [err |-> "", out |-> source]
    ELSE LET m == matches[j]
             chunk == IF m.s \in DOMAIN includes THEN includes[m.s] ELSE <<>>
         IN  IF Len(chunk) = 0 THEN [err |-> "Include not found", out |-> <<>>]
             ELSE LET r == processIncludes(includes, chunk, defines, fuel - 1)
                      skipped == SkipLine(r.out)
                      qty == IF m.q \in DOMAIN defines
                             THEN Atoi(defines[m.q]) ELSE [err |-> FALSE, n |-> 0]
                      incSource ==
                          IF m.q = "" THEN skipped
                          ELSE IF m.q \notin DOMAIN defines THEN <<>>
                          ELSE IF qty.n > 0 THEN Repeat(skipped, 0, qty.n)
                          ELSE skipped
                  IN  IF r.err # "" THEN r
                      ELSE IF m.q # "" /\ m.q \in DOMAIN defines /\ qty.err
                      THEN [err |-> "Atoi", out |-> <<>>]
                      ELSE ExpandMatches(includes, ReplaceTok(source, m, incSource),
                                         matches, j + 1, defines, fuel)

processIncludes(includes, source, defines, fuel) ==
    LET matches == SelectSeq(source, LAMBDA t : t.k = "inc")
    IN  IF Len(matches) = 0 THEN [err |-> "", out |-> source]
        ELSE IF fuel = 0 THEN [err |-> "no return", out |-> <<>>]
        ELSE ExpandMatches(includes, source, matches, 1, defines, fuel)

\* Coman.preprocess, the outer call: order is the order in which the range
\* over the defines map yields the names.
preprocess(includes, source, defines, order) ==
    LET prefix == <<Tok("ver", "GLSL_VERSION", "", <<>>)>>
                    \o [i \in 1..Len(order) |->
                            Tok("def", order[i], "", defines[order[i]])]
    IN  processIncludes(includes, prefix \o source, defines, MaxDepth)

---------------------------------------------------------------------------
(* renderer.ComputeSpecs and renderer.Coman.  A defines map is a function  *)
(* from names to values, a nil map the empty function.                     *)

NoMap == <<>>

\* The zero value of ComputeSpecs.
ZeroSpecs ==
    [Name |-> "", Version |-> "", Defines |-> NoMap, BufferObjects |-> NoMap,
     alias |-> {}]

\* gls.ShaderDefines.Equals.
DefinesEquals(a, b) == DOMAIN a = DOMAIN b /\ \A k \in DOMAIN a : a[k] = b[k]

\* A Go map is a reference: a struct copied from the caller's specs holds
\* the caller's own maps.  alias names the map fields of a ComputeSpecs
\* held by the Coman that are the caller's maps; a write of the caller to
\* its map (field: "Defines" or "BufferObjects"), leaving it as m, is seen
\* through each of them.
Held(specs, field, m) ==
    IF field \in specs.alias THEN [specs EXCEPT ![field] = m] ELSE specs

Aliased(c, field, m) ==
    [c EXCEPT !.specs = Held(c.specs, field, m),
              !.programs = [i \in 1..Len(c.programs) |->
                               [program |-> c.programs[i].program,
                                specs |-> Held(c.programs[i].specs, field, m)]]]

\* ComputeSpecs.copy that stops after the struct assignment.
copyShallow(other) ==
    [Name |-> other.Name, Version |-> other.Version,
     Defines |-> other.Defines, BufferObjects |-> other.BufferObjects,
     alias |-> {"Defines", "BufferObjects"}]

\* ComputeSpecs.copy: the struct assignment, then a new map of each kind
\* filled by Add (a nil map stays nil: nothing can be written through it).
copy(other) ==
    LET shallow == [Name |-> other.Name, Version |-> other.Version,
                    Defines |-> other.Defines,
                    BufferObjects |-> other.BufferObjects,
                    alias |-> {"Defines", "BufferObjects"}]
    IN  [shallow EXCEPT
            !.Defines = [k \in DOMAIN other.Defines |-> other.Defines[k]],
            !.BufferObjects = RegAdd(NoMap, other.BufferObjects),
            !.alias = {}]

\* ComputeSpecs.equals.
equals(objs, cs, other) ==
    /\ cs.Name = other.Name
    /\ DefinesEquals(cs.Defines, other.Defines)
    /\ RegEquals(objs, cs.BufferObjects, other.BufferObjects)

\* Coman.Init.
ComanInit(includes) ==
    [includes |-> includes, shadercm |-> NoMap, proginfo |-> NoMap,
     programs |-> <<>>, specs |-> ZeroSpecs]

\* Coman.AddShader.
AddShader(c, name, source) ==
    [c EXCEPT !.shadercm =
        [k \in DOMAIN c.shadercm \cup {name} |->
            IF k = name THEN source ELSE c.shadercm[k]]]

\* Coman.AddProgram.
AddProgram(c, programName, computeShaderName) ==
    [c EXCEPT !.proginfo =
        [k \in DOMAIN c.proginfo \cup {programName} |->
            IF k = programName THEN computeShaderName ELSE c.proginfo[k]]]

\* Coman.GenProgram; defOrder is the order the range over the defines
\* yields, buildOk whether the driver compiles and links the source.  The
\* program built is named by its place in the list of built programs.
GenProgram(c, specs, defOrder, buildOk) ==
    IF specs.Name \notin DOMAIN c.proginfo
    THEN [prog |-> 0, err |-> "Program not found"]
    ELSE IF c.proginfo[specs.Name] \notin DOMAIN c.shadercm
    THEN [prog |-> 0, err |-> "Compute shader not found"]
    ELSE LET r == preprocess(c.includes, c.shadercm[c.proginfo[specs.Name]],
                             specs.Defines, defOrder)
         IN  IF r.err # "" THEN [prog |-> 0, err |-> r.err]
             ELSE IF ~buildOk THEN [prog |-> 0, err |-> "Build"]
             ELSE [prog |-> Len(c.programs) + 1, err |-> ""]

\* A cache search that finds nothing.
NeverCached(objs, c, specs) == 0

\* The first compiled program whose specs equal specs, or 0.
Cached(objs, c, specs) ==
    IF \E i \in 1..Len(c.programs) : equals(objs, c.programs[i].specs, specs)
    THEN CHOOSE i \in 1..Len(c.programs) :
            /\ equals(objs, c.programs[i].specs, specs)
            /\ \A j \in 1..(i - 1) : ~equals(objs, c.programs[j].specs, specs)
    ELSE 0

\* Coman.SetProgram that makes the specs current before it generates the
\* program.
SetProgramEager(c, g, objs, s, defOrder, buildOk, bindOrder) ==
    LET specs == copy(s)
        hit == Cached(objs, c, specs)
        gen == GenProgram(c, specs, defOrder, buildOk)
        bound == RegBind(g, objs, specs.BufferObjects, bindOrder, <<>>)
    IN  IF equals(objs, c.specs, specs)
        THEN [c |-> c, g |-> g, objs |-> objs, changed |-> FALSE, err |-> ""]
        ELSE IF hit # 0
        THEN [c |-> [c EXCEPT !.specs = specs],
              g |-> UseProgram(g, c.programs[hit].program),
              objs |-> objs, changed |-> TRUE, err |-> ""]
        ELSE IF gen.err # ""
        THEN [c |-> [c EXCEPT !.specs = specs], g |-> g, objs |-> objs,
              changed |-> FALSE, err |-> gen.err]
        ELSE [c |-> [c EXCEPT !.specs = specs,
                              !.programs = Append(@, [program |-> gen.prog,
                                                      specs |-> specs])],
              g |-> UseProgram(bound.g, gen.prog),
              objs |-> bound.objs, changed |-> TRUE, err |-> ""]

\* Coman.SetProgram that activates a new program without binding the
\* buffer objects of the specs.
SetProgramUnbound(c, g, objs, s, defOrder, buildOk, bindOrder) ==
    LET specs == copy(s)
        hit == Cached(objs, c, specs)
        gen == GenProgram(c, specs, defOrder, buildOk)
    IN  IF equals(objs, c.specs, specs)
        THEN [c |-> c, g |-> g, objs |-> objs, changed |-> FALSE, err |-> ""]
        ELSE IF hit # 0
        THEN [c |-> [c EXCEPT !.specs = specs],
              g |-> UseProgram(g, c.programs[hit].program),
              objs |-> objs, changed |-> TRUE, err |-> ""]
        ELSE IF gen.err # ""
        THEN [c |-> c, g |-> g, objs |-> objs, changed |-> FALSE, err |-> gen.err]
        ELSE [c |-> [c EXCEPT !.specs = specs,
                              !.programs = Append(@, [program |-> gen.prog,
                                                      specs |-> specs])],
              g |-> UseProgram(g, gen.prog),
              objs |-> objs, changed |-> TRUE, err |-> ""]

\* Coman.SetProgram that keeps the latest compiled program only.
SetProgramSingle(c, g, objs, s, defOrder, buildOk, bindOrder) ==
    LET specs == copy(s)
        hit == Cached(objs, c, specs)
        gen == GenProgram(c, specs, defOrder, buildOk)
        bound == RegBind(g, objs, specs.BufferObjects, bindOrder, <<>>)
    IN  IF equals(objs, c.specs, specs)
        THEN [c |-> c, g |-> g, objs |-> objs, changed |-> FALSE, err |-> ""]
        ELSE IF hit # 0
        THEN [c |-> [c EXCEPT !.specs = specs],
              g |-> UseProgram(g, c.programs[hit].program),
              objs |-> objs, changed |-> TRUE, err |-> ""]
        ELSE IF gen.err # ""
        THEN [c |-> c, g |-> g, objs |-> objs, changed |-> FALSE, err |-> gen.err]
        ELSE [c |-> [c EXCEPT !.specs = specs,
                              !.programs = <<[program |-> gen.prog,
                                              specs |-> specs]>>],
              g |-> UseProgram(bound.g, gen.prog),
              objs |-> bound.objs, changed |-> TRUE, err |-> ""]

\* Coman.SetProgram; bindOrder is the order the range over the buffer
\* objects takes in Bind.
SetProgram(c, g, objs, s, defOrder, buildOk, bindOrder) ==
    LET specs == copy(s)
        hit == Cached(objs, c, specs)
        gen == GenProgram(c, specs, defOrder, buildOk)
        bound == RegBind(g, objs, specs.BufferObjects, bindOrder, <<>>)
    IN  IF equals(objs, c.specs, specs)
        THEN [c |-> c, g |-> g, objs |-> objs, changed |-> FALSE, err |-> ""]
        ELSE IF hit # 0
        THEN [c |-> [c EXCEPT !.specs = specs],
              g |-> UseProgram(g, c.programs[hit].program),
              objs |-> objs, changed |-> TRUE, err |-> ""]
        ELSE IF gen.err # ""
        THEN [c |-> c, g |-> g, objs |-> objs, changed |-> FALSE, err |-> gen.err]
        ELSE [c |-> [c EXCEPT !.specs = specs,
                              !.programs = Append(@, [program |-> gen.prog,
                                                      specs |-> specs])],
              g |-> UseProgram(bound.g, gen.prog),
              objs |-> bound.objs, changed |-> TRUE, err |-> ""]

\* Coman.Compute that dispatches, issues the barrier and returns.
ComputeUnprocessed(c, g, objs, nWorkGroups, deltaTime, order, oks, bad) ==
    LET g1 == DispatchCompute(g, nWorkGroups[1], nWorkGroups[2], nWorkGroups[3])
    IN  [g |-> MemoryBarrier(g1), err |-> <<>>, processed |-> <<>>,
         panic |-> FALSE]

\* Coman.Compute that issues the barrier after the buffers are processed.
ComputeBarrierLast(c, g, objs, nWorkGroups, deltaTime, order, oks, bad) ==
    LET g1 == DispatchCompute(g, nWorkGroups[1], nWorkGroups[2], nWorkGroups[3])
        r == RegProcess(g1, objs, c.specs.BufferObjects, order, oks, bad,
                        deltaTime, <<>>)
    IN  [g |-> IF r.panic THEN r.g ELSE MemoryBarrier(r.g), err |-> <<>>,
         processed |-> r.err, panic |-> r.panic]

\* Coman.Compute; order, oks and bad as in RegProcess.  What Process
\* returns is dropped.
Compute(c, g, objs, nWorkGroups, deltaTime, order, oks, bad) ==
    LET g1 == DispatchCompute(g, nWorkGroups[1], nWorkGroups[2], nWorkGroups[3])
        g2 == MemoryBarrier(g1)
        r == RegProcess(g2, objs, c.specs.BufferObjects, order, oks, bad,
                        deltaTime, <<>>)
    IN  [g |-> r.g, err |-> <<>>, processed |-> r.err, panic |-> r.panic]

\* BufferObjects.DeleteBufferObjects that stops after the first entry.
RegDeleteFirst(g, objs, b, order) ==
    IF order = <<>> THEN [g |-> g, reg |-> b]
    ELSE [g |-> SSBODelete(g, objs[b[Head(order)]]),
          reg |-> RegUnset(b, Head(order))]

\* BufferObjects.DeleteBufferObjects, ranging over the map in the order
\* given.
RECURSIVE RegDelete(_, _, _, _)
RegDelete(g, objs, b, order) ==
    IF order = <<>> THEN [g |-> g, reg |-> b]
    ELSE RegDelete(SSBODelete(g, objs[b[Head(order)]]), objs,
                   RegUnset(b, Head(order)), Tail(order))

\* SSBO.Init with the id GenBuffer gave.
SSBOInit(bufferID, bindingIndex, sz) ==
    [BufferID |-> bufferID, BindingIndex |-> bindingIndex, Size |-> sz,
     initialData |-> NilData]

\* SSBO.SetInitialData.
SetInitialData(s, data) == [s EXCEPT !.initialData = [nil |-> FALSE, bytes |-> data]]

---------------------------------------------------------------------------
(* The pipeline as a state machine: the caller holds NBuf SSBO objects, a  *)
(* registry bos of its own and a Coman; one action per call.  call is the  *)
(* last call with what it returned, gs.log the driver calls it made.       *)

\* The include library, the shader sources, program and shader names,
\* defines, payloads and frame times the caller uses.
Library ==
    [n \in {"A", "B", "C", "D", "L", "P"} |->
        CASE n = "A" -> <<Txt("a"), IndexParameter>>
          [] n = "B" -> <<Txt("b"), Inc("A")>>
          [] n = "C" -> <<Txt("c"), Inc("D")>>
          [] n = "D" -> <<Inc("C")>>
          [] n = "L" -> <<Inc("L")>>
          [] n = "P" -> <<IncN("P", "N")>>]
Sources ==
    {<<Inc("B"), Txt("main"), IncN("A", "N")>>, <<Inc("M"), Txt("main")>>}
ProgNames == {"", "prog"}
ShaderNames == {"cs"}
DefineMaps == {NoMap, [n \in {"N"} |-> <<"2">>]}
Payloads == {<<1, 2, 3, 4, 5, 6>>}
SSBOSize(id) == 4 * id
BindingOf(id) == (id - 1) % (MaxBinding + 1)
DeltaTimes == {16, 33}
WorkGroups == <<1, 1, 1>>

\* Calls a run of the pipeline is followed for.
MaxCalls == 5

NoPipeCall ==
    [n |-> 0, op |-> "none", id |-> 0, changed |-> FALSE, err |-> <<>>,
     arg |-> <<>>, dt |-> 0, outcome |-> "returned", ret |-> FALSE]

\* An error value as the sequence of the errors joined in it.
Errs(e) == IF e = "" THEN <<>> ELSE <<e>>

\* Programs the cache is followed up to.
MaxPrograms == 2

\* The binding indices the caller gives its buffers: one each, or the
\* first index to all of them.
BindingLayouts == {[id \in BufIds |-> BindingOf(id)], [id \in BufIds |-> 0]}

\* The Coman a run starts with: as NewComan leaves it, or with the shader
\* "cs" and the program "prog" of that shader registered since.
Comans ==
    {ComanInit(Library),
     AddProgram(AddShader(ComanInit(Library), "cs",
                          <<Inc("B"), Txt("main"), IncN("A", "N")>>),
                "prog", "cs")}

PipeInit ==
    /\ \E layout \in BindingLayouts :
        ssbo = [id \in BufIds |-> SSBOInit(id, layout[id], SSBOSize(id))]
    /\ bos = NoMap
    /\ gs = GSInit
    /\ cm \in Comans
    /\ call = NoPipeCall

\* The record of a call that returned: its number, the operation, the
\* buffer it was made on (or 0), and the results.  arg and dt are the
\* argument and the deltaTime of the calls that take one, ret is what
\* Equals returned.
Returned(op, id, changed, err) ==
    [n |-> call.n + 1, op |-> op, id |-> id, changed |-> changed, err |-> err,
     arg |-> <<>>, dt |-> 0, outcome |-> "returned", ret |-> FALSE]

\* The same for a call that a panic of a callback unwound.  No caller in
\* this code recovers it: the run is followed no further.
Unwound(r, panic) == [r EXCEPT !.outcome = IF panic THEN "panic" ELSE "returned"]

\* The driver at the entry of a call: the calls made are counted anew.
AtEntry == [gs EXCEPT !.log = <<>>]

AddShaderOp ==
    /\ call.n < MaxCalls
    /\ call.outcome = "returned"
    /\ \E name \in ShaderNames, source \in Sources :
        /\ cm' = AddShader(cm, name, source)
        /\ call' = Returned("AddShader", 0, FALSE, <<>>)
    /\ gs' = AtEntry
    /\ UNCHANGED <<ssbo, bos>>
    /\ UNCHANGED <<ramVars, pp>>

AddProgramOp ==
    /\ call.n < MaxCalls
    /\ call.outcome = "returned"
    /\ \E programName \in ProgNames \ {""}, computeShaderName \in ShaderNames :
        /\ cm' = AddProgram(cm, programName, computeShaderName)
        /\ call' = Returned("AddProgram", 0, FALSE, <<>>)
    /\ gs' = AtEntry
    /\ UNCHANGED <<ssbo, bos>>
    /\ UNCHANGED <<ramVars, pp>>

SetProgramOp ==
    /\ call.n < MaxCalls
    /\ call.outcome = "returned"
    /\ \E name \in ProgNames, defines \in DefineMaps, buildOk \in BOOLEAN :
        \E defOrder \in Orders(DOMAIN defines), bindOrder \in Orders(DOMAIN bos) :
            \E r \in {SetProgram(Aliased(cm, "Defines", defines), AtEntry, ssbo,
                                 [Name |-> name, Version |-> "",
                                  Defines |-> defines, BufferObjects |-> bos],
                                 defOrder, buildOk, bindOrder)} :
                /\ Len(r.c.programs) <= MaxPrograms
                /\ cm' = r.c
                /\ gs' = r.g
                /\ ssbo' = r.objs
                /\ call' = [Returned("SetProgram", 0, r.changed, Errs(r.err))
                                EXCEPT !.arg = [Name |-> name, Defines |-> defines]]
    /\ UNCHANGED bos
    /\ UNCHANGED <<ramVars, pp>>

ComputeOp ==
    /\ call.n < MaxCalls
    /\ call.outcome = "returned"
    /\ \E deltaTime \in DeltaTimes,
          order \in Orders(DOMAIN cm.specs.BufferObjects),
          oks \in SUBSET DOMAIN cm.specs.BufferObjects :
        \E bad \in SUBSET oks :
        \E r \in {Compute(cm, AtEntry, ssbo, WorkGroups, deltaTime, order, oks,
                          bad)} :
            /\ gs' = r.g
            /\ call' = Unwound([Returned("Compute", 0, FALSE, r.err)
                                    EXCEPT !.dt = deltaTime], r.panic)
    /\ UNCHANGED <<ssbo, bos, cm>>
    /\ UNCHANGED <<ramVars, pp>>

SSBOProcessOp ==
    /\ call.n < MaxCalls
    /\ call.outcome = "returned"
    /\ \E o \in BufIds, deltaTime \in DeltaTimes, ok \in BOOLEAN :
        \E panics \in IF ok THEN BOOLEAN ELSE {FALSE} :
        \E r \in {SSBOProcess(AtEntry, ssbo[o], deltaTime,
                              ok /\ CanMap(gs, ssbo[o].BufferID), panics)} :
            /\ gs' = r.g
            /\ call' = Unwound([Returned("Process", ssbo[o].BufferID, FALSE, r.err)
                                    EXCEPT !.dt = deltaTime], r.panic)
    /\ UNCHANGED <<ssbo, bos, cm>>
    /\ UNCHANGED <<ramVars, pp>>

SSBOBindOp ==
    /\ call.n < MaxCalls
    /\ call.outcome = "returned"
    /\ \E o \in BufIds :
        \E r \in {SSBOBind(AtEntry, ssbo[o])} :
            /\ gs' = r.g
            /\ ssbo' = [ssbo EXCEPT ![o] = r.s]
            /\ call' = Returned("Bind", ssbo[o].BufferID, FALSE, r.err)
    /\ UNCHANGED <<bos, cm>>
    /\ UNCHANGED <<ramVars, pp>>

\* The caller rewrites entries of the defines map of its specs.
DefineOp ==
    /\ call.n < MaxCalls
    /\ call.outcome = "returned"
    /\ \E defines \in DefineMaps :
        /\ cm' = Aliased(cm, "Defines", defines)
        /\ call' = [Returned("Define", 0, FALSE, <<>>) EXCEPT !.arg = defines]
    /\ gs' = AtEntry
    /\ UNCHANGED <<ssbo, bos>>
    /\ UNCHANGED <<ramVars, pp>>

SetInitialDataOp ==
    /\ call.n < MaxCalls
    /\ call.outcome = "returned"
    /\ \E o \in BufIds, data \in Payloads :
        /\ ssbo' = [ssbo EXCEPT ![o] = SetInitialData(ssbo[o], data)]
        /\ call' = Returned("SetInitialData", ssbo[o].BufferID, FALSE, <<>>)
    /\ gs' = AtEntry
    /\ UNCHANGED <<bos, cm>>
    /\ UNCHANGED <<ramVars, pp>>

BOSetOp ==
    /\ call.n < MaxCalls
    /\ call.outcome = "returned"
    /\ \E o \in BufIds :
        /\ bos' = RegSet(ssbo, bos, o)
        /\ call' = Returned("Set", ssbo[o].BufferID, FALSE, <<>>)
    /\ gs' = AtEntry
    /\ cm' = Aliased(cm, "BufferObjects", bos')
    /\ UNCHANGED ssbo
    /\ UNCHANGED <<ramVars, pp>>

BOUnsetOp ==
    /\ call.n < MaxCalls
    /\ call.outcome = "returned"
    /\ \E id \in BufIds :
        /\ bos' = RegUnset(bos, id)
        /\ call' = Returned("Unset", id, FALSE, <<>>)
    /\ gs' = AtEntry
    /\ cm' = Aliased(cm, "BufferObjects", bos')
    /\ UNCHANGED ssbo
    /\ UNCHANGED <<ramVars, pp>>

\* The registry that Set builds of the objects K.
RegOf(K) ==
    [k \in {ssbo[o].BufferID : o \in K} |->
        CHOOSE o \in K : ssbo[o].BufferID = k]

BOAddOp ==
    /\ call.n < MaxCalls
    /\ call.outcome = "returned"
    /\ \E K \in SUBSET BufIds :
        /\ bos' = RegAdd(bos, RegOf(K))
        /\ call' = [Returned("Add", 0, FALSE, <<>>) EXCEPT !.arg = RegOf(K)]
    /\ gs' = AtEntry
    /\ cm' = Aliased(cm, "BufferObjects", bos')
    /\ UNCHANGED ssbo
    /\ UNCHANGED <<ramVars, pp>>

BOEqualsOp ==
    /\ call.n < MaxCalls
    /\ call.outcome = "returned"
    /\ \E K \in SUBSET BufIds :
        call' = [Returned("Equals", 0, FALSE, <<>>)
                    EXCEPT !.arg = RegOf(K),
                           !.ret = RegEquals(ssbo, bos, RegOf(K))]
    /\ gs' = AtEntry
    /\ UNCHANGED <<ssbo, bos, cm>>
    /\ UNCHANGED <<ramVars, pp>>

BOBindOp ==
    /\ call.n < MaxCalls
    /\ call.outcome = "returned"
    /\ \E order \in Orders(DOMAIN bos) :
        \E r \in {RegBind(AtEntry, ssbo, bos, order, <<>>)} :
            /\ gs' = r.g
            /\ ssbo' = r.objs
            /\ call' = Returned("BOBind", 0, FALSE, r.err)
    /\ UNCHANGED <<bos, cm>>
    /\ UNCHANGED <<ramVars, pp>>

BOProcessOp ==
    /\ call.n < MaxCalls
    /\ call.outcome = "returned"
    /\ \E deltaTime \in DeltaTimes, order \in Orders(DOMAIN bos),
          oks \in SUBSET DOMAIN bos :
        \E bad \in SUBSET oks :
        \E r \in {RegProcess(AtEntry, ssbo, bos, order, oks, bad, deltaTime,
                             <<>>)} :
            /\ gs' = r.g
            /\ call' = Unwound([Returned("BOProcess", 0, FALSE, r.err)
                                    EXCEPT !.dt = deltaTime], r.panic)
    /\ UNCHANGED <<ssbo, bos, cm>>
    /\ UNCHANGED <<ramVars, pp>>

DeleteBufferObjectsOp ==
    /\ call.n < MaxCalls
    /\ call.outcome = "returned"
    /\ \E order \in Orders(DOMAIN bos) :
        \E r \in {RegDelete(AtEntry, ssbo, bos, order)} :
            /\ gs' = r.g
            /\ bos' = r.reg
    /\ call' = Returned("DeleteBufferObjects", 0, FALSE, <<>>)
    /\ cm' = Aliased(cm, "BufferObjects", bos')
    /\ UNCHANGED ssbo
    /\ UNCHANGED <<ramVars, pp>>

---------------------------------------------------------------------------
(* Coman.preprocess on its own: the sources, defines and include libraries *)
(* it is put to.                                                           *)

\* Tokens a source is made of, and the longest source.
MaxSrcLen == 2
SrcTokens ==
    {Txt("m"), IndexParameter, Inc("A"), Inc("B"), Inc("C"), Inc("L"),
     Inc("M"), IncN("A", "N"), IncN("B", "N"), IncN("M", "N"), IncN("P", "N")}
SrcsOfLen(n) == [1..n -> SrcTokens]
PPSources == UNION {SrcsOfLen(n) : n \in 1..MaxSrcLen}

\* Values of the define N, and the defines maps.
DefineValues == {<<"0">>, <<"2">>, <<"-", "1">>, <<"x">>}
PPDefines ==
    {NoMap} \cup {[n \in {"N"} |-> v] : v \in DefineValues}
            \cup {[n \in {"K", "N"} |-> IF n = "N" THEN <<"2">> ELSE <<"1">>]}

\* The include libraries: all chunks, and chunk A alone.
PPLibraries == {Library, [n \in {"A"} |-> Library[n]]}

\* Nothing put to preprocess.
NoPP ==
    [source |-> <<>>, defines |-> NoMap, includes |-> NoMap, ran |-> FALSE,
     order |-> <<>>, err |-> "", out |-> <<>>]

PPIdle == pp = NoPP

PPInit ==
    \E source \in PPSources, defines \in PPDefines, includes \in PPLibraries :
        pp = [NoPP EXCEPT !.source = source, !.defines = defines,
                          !.includes = includes]

PreprocessOp ==
    /\ ~pp.ran
    /\ \E order \in Orders(DOMAIN pp.defines) :
        \E r \in {preprocess(pp.includes, pp.source, pp.defines, order)} :
            pp' = [pp EXCEPT !.ran = TRUE, !.order = order, !.err = r.err,
                             !.out = r.out]
    /\ UNCHANGED <<ramVars, pipeVars>>

---------------------------------------------------------------------------
(* The three specifications: the calls on one view, the calls on the       *)
(* pipeline, and preprocess on its own.  Each leaves the other parts idle. *)

\* No pipeline call made yet.
PipeIdle ==
    /\ ssbo = [id \in BufIds |-> SSBOInit(id, BindingOf(id), SSBOSize(id))]
    /\ bos = NoMap
    /\ gs = GSInit
    /\ cm = ComanInit(Library)
    /\ call = NoPipeCall

\* No view made yet.
ViewIdle ==
    /\ ty = "Int"
    /\ size = 0
    /\ mapped = 0
    /\ mem = <<>>
    /\ last = NoCall
    /\ fault = FALSE

InitRAM == ViewInit /\ PipeIdle /\ PPIdle

NextRAM ==
    \/ SetOp
    \/ GetOp
    \/ AsOp
    \/ GetBytesOp
    \/ SetBytesOp
    \/ GetTypeSizeOp

SpecRAM == InitRAM /\ [][NextRAM]_vars

Init == PipeInit /\ ViewIdle /\ PPIdle

Next ==
    \/ AddShaderOp
    \/ AddProgramOp
    \/ SetProgramOp
    \/ ComputeOp
    \/ SSBOProcessOp
    \/ SSBOBindOp
    \/ SetInitialDataOp
    \/ BOSetOp
    \/ BOUnsetOp
    \/ DefineOp
    \/ BOAddOp
    \/ BOEqualsOp
    \/ BOBindOp
    \/ BOProcessOp
    \/ DeleteBufferObjectsOp

Spec == Init /\ [][Next]_vars

InitPP == PPInit /\ PipeIdle /\ ViewIdle

NextPP == PreprocessOp

SpecPP == InitPP /\ [][NextPP]_vars

---------------------------------------------------------------------------
(* The properties checked.  Widths are those of std430: an element kind's  *)
(* byte width in a buffer.                                                 *)

Std430Width(T) ==
    CASE T \in {"bool", "int32", "uint32", "float32"} -> 4
      [] T = "float64" -> 8
      [] T = "math32.Vector2" -> 8
      [] T = "math32.Vector3" -> 12
      [] T = "math32.Vector4" -> 16
      [] T = "math64.Vector2" -> 16
      [] T = "math64.Vector3" -> 24
      [] T = "math64.Vector4" -> 32
      [] T = "math32.Matrix3" -> 36
      [] T = "math32.Matrix4" -> 64

\* sizeof(T) of the accessors for t.
ElemWidth(t) == Std430Width(GoType(t))

\* (i+1)*E > S, in the integers.
MathExceeds(i, E, S) == i[1] > 0 \/ (i[2] + 1) * E > S

\* offset + length > S, in the integers.
SumExceeds(off, len, S) == off[1] > 0 \/ len[1] > 0 \/ off[2] + len[2] > S

\* The access touches a byte at an offset >= S.
OutOfView(acc, S) == acc.len # U32(0) /\ SumExceeds(acc.off, acc.len, S)

\* The buffers whose map call the driver answered with the null handle, in
\* the driver calls of the last call.
FailedMaps ==
    {gs.log[k].id : k \in {j \in DOMAIN gs.log :
        gs.log[j].call = "MapNamedBuffer" /\ gs.log[j].a = 0}}

\* The buffers on which the driver call c was made in the last call.
CalledOn(c) == {gs.log[k].id : k \in {j \in DOMAIN gs.log : gs.log[j].call = c}}

\* C1: Compute returns a non-nil error if some buffer of the active
\* registry failed to map in it, and nil only when none did.
C1_ComputeReturnsProcessError ==
    (call.op = "Compute" /\ call.outcome = "returned") =>
        (call.err = <<>> <=> FailedMaps = {})

\* C2: a typed set at index i fails, writing no byte, iff (i+1)*E > S, and
\* succeeds otherwise; no setter writes a byte at an offset >= S.
C2_SetBoundsCheck ==
    last.op = "Set" =>
        /\ last.err <=> MathExceeds(last.idx, ElemWidth(ty), size)
        /\ last.err => last.acc = NoAccess
        /\ ~last.err => last.outcome = "ok"
        /\ ~OutOfView(last.acc, size)

\* C3: a typed get at index i returns an error iff (i+1)*E > S, otherwise
\* the element stored at byte offset i*E, and reads no byte at an offset
\* >= S.
C3_GetBoundsCheck ==
    last.op = "Get" =>
        /\ last.err <=> MathExceeds(last.idx, ElemWidth(ty), size)
        /\ ~last.err =>
            /\ last.outcome = "ok"
            /\ ~OutOfView(last.acc, size)
            /\ last.ret = Load(mem, ty, last.idx[2] * ElemWidth(ty))

\* C4: GetBytes and SetBytes fail whenever offset+length exceeds the size
\* in the integers (also when the 32-bit sum wraps), access no byte when
\* they fail, and exactly the bytes [offset, offset+length) when they
\* succeed.
C4_BytesBoundsCheck ==
    last.op \in {"GetBytes", "SetBytes"} =>
        LET length == IF last.op = "GetBytes" THEN last.arg ELSE U32(Len(last.arg))
        IN  IF SumExceeds(last.idx, length, size)
            THEN last.err /\ last.acc = NoAccess /\ last.outcome = "ok"
            ELSE /\ ~last.err
                 /\ last.outcome = "ok"
                 /\ last.acc = [off |-> last.idx, len |-> length]

\* C5: a successful set<T>(i, v) at an in-bounds index i, followed at once
\* by get<T>(i), returns v without error.
C5_RoundTrip ==
    (/\ last.op = "Set"
     /\ ~last.err
     /\ ~fault
     /\ ~MathExceeds(last.idx, ElemSize(ty), size)) =>
        \E r \in {Get(mem, size, mapped, ty, last.idx)} :
            ~r.err /\ ~r.fault /\ r.val = last.arg

\* A vector with differing components was set at index 1 and the call
\* returned nil.
C5_Witness ==
    /\ last.op = "Set"
    /\ ~last.err
    /\ ~fault
    /\ ty = "Vec3"
    /\ last.idx = U32(1)
    /\ last.arg = <<F32a, F32b, F32a>>
    /\ ~MathExceeds(last.idx, ElemSize(ty), size)

\* C6: a successful set<T>(i, v) changes no byte outside
\* [i*sizeof(T), (i+1)*sizeof(T)), and get<T>(j) returns the same before and
\* after it for every j # i.
C6_SetFrame ==
    [][(last'.op = "Set" /\ ~last'.err /\ ~fault') =>
        /\ \A k \in 1..mapped :
            (k - 1 < last'.idx[2] * ElemWidth(ty)
                \/ k - 1 >= (last'.idx[2] + 1) * ElemWidth(ty)) => mem'[k] = mem[k]
        /\ \A j \in 0..(size \div ElemSize(ty)) :
            j # last'.idx[2] =>
                Get(mem', size, mapped, ty, U32(j)) = Get(mem, size, mapped, ty, U32(j))
      ]_vars

\* C7: after a successful SetBool(i, true) the 4 bytes at byte offset i*4
\* hold the 32-bit integer 1, after SetBool(i, false) they are all zero, and
\* GetBool(i) returns true iff they hold the integer 1.
C7_BoolEncoding ==
    (/\ ty = "Bool"
     /\ last.op \in {"Set", "Get"}
     /\ ~last.err
     /\ ~fault
     /\ ~MathExceeds(last.idx, 4, size)) =>
        LET cell == Bytes(mem, 4 * last.idx[2], 4)
        IN  IF last.op = "Set"
            THEN cell = IF last.arg[1] THEN <<1, 0, 0, 0>> ELSE <<0, 0, 0, 0>>
            ELSE last.ret[1] <=> (cell = <<1, 0, 0, 0>>)

\* C8: the type-size table and GetTypeSize[T] give the std430 byte width of
\* each element kind, and every vector and matrix size is its component
\* count times the size of its scalar component.
C8_TypeSizes ==
    /\ SizeBoolStd430 = 4 /\ SizeIntStd430 = 4 /\ SizeUintStd430 = 4
    /\ SizeFloatStd430 = 4 /\ SizeDoubleStd430 = 8
    /\ SizeVec2Std430 = 8 /\ SizeVec3Std430 = 12 /\ SizeVec4Std430 = 16
    /\ SizeDvec2Std430 = 16 /\ SizeDvec3Std430 = 24 /\ SizeDvec4Std430 = 32
    /\ SizeMat3Std430 = 36 /\ SizeMat4Std430 = 64
    /\ last.op = "GetTypeSize" => last.ret = <<Std430Width(last.arg)>>

\* C9: a typed iterator run to completion yields exactly floor(S/sizeof(T))
\* pairs, with indices 0, 1, 2, ... and the k-th value equal to get<T>(k),
\* and reads no byte at an offset >= S; it stops at once when the consumer
\* returns false; a fresh iteration starts at index 0.
C9_Iterator ==
    last.op = "As" =>
        /\ ~OutOfView(last.acc, size)
        /\ \A k \in DOMAIN last.ret :
            /\ last.ret[k][1] = k - 1
            /\ \E r \in {Get(mem, size, mapped, ty, U32(k - 1))} :
                ~r.err /\ ~r.fault /\ r.val = last.ret[k][2]
        /\ (last.arg = 0 \/ last.arg > size \div ElemWidth(ty)) =>
            /\ last.outcome = "done"
            /\ Len(last.ret) = size \div ElemWidth(ty)
        /\ (last.arg > 0 /\ last.arg <= size \div ElemWidth(ty)) =>
            /\ last.outcome = "stopped"
            /\ Len(last.ret) = last.arg

\* C10: when the driver answers the map call of SSBO.Process with the null
\* handle, Process returns an error that names the buffer id, and neither
\* the callback nor unmap is called for the buffer.
C10_MapFailure ==
    (call.op = "Process" /\ FailedMaps # {}) =>
        /\ FailedMaps = {call.id}
        /\ call.err = <<MapError(call.id)>>
        /\ call.id \notin CalledOn("SSBOCallback")
        /\ call.id \notin CalledOn("UnmapNamedBuffer")

\* Process was called on a buffer that has storage and is not mapped, and
\* the driver answered the map call with the null handle.
C10_Witness ==
    /\ call.op = "Process"
    /\ call.id \in FailedMaps
    /\ gs.store[call.id].alloc
    /\ call.id \notin gs.mapped

\* The SSBO object whose buffer id is id.
ObjOf(id) == ssbo[CHOOSE o \in BufIds : ssbo[o].BufferID = id]

\* The driver calls of the last call other than those binding the target.
Unbound == SelectSeq(gs.log, LAMBDA e : e.call # "BindBuffer")

\* C11: when the map call succeeds, SSBO.Process makes exactly the calls
\* map, callback, unmap in this order: the callback once, with a view of
\* the buffer's Size and with the deltaTime given, while the buffer is
\* mapped; the buffer is unmapped when Process returns.
C11_MapCallbackUnmap ==
    (/\ call.op = "Process"
     /\ call.outcome = "returned"
     /\ call.id \notin FailedMaps) =>
        /\ Unbound = << Ev("MapNamedBuffer", call.id, 1, 0),
                        Ev("SSBOCallback", call.id, ObjOf(call.id).Size, call.dt),
                        Ev("UnmapNamedBuffer", call.id, 0, 0) >>
        /\ call.id \notin gs.mapped
        /\ call.err = <<>>

\* Process returned after its callback was called with the larger
\* deltaTime on the larger buffer.
C11_Witness ==
    /\ call.op = "Process"
    /\ call.outcome = "returned"
    /\ call.id = NBuf
    /\ call.dt = 33
    /\ CalledOn("SSBOCallback") = {call.id}

\* C12: every successful map in SSBO.Process is released by an unmap on
\* every exit path, also when the callback panics: no execution leaves
\* Process with the buffer still mapped.
C12_UnmapOnAllPaths ==
    call.op \in {"Process", "Compute"} => gs.mapped = {}

\* The place in ssbo of the object the call made in this step was made on.
Callee == CHOOSE o \in BufIds : ssbo[o].BufferID = call'.id

\* This step is a call of SSBO.Bind.
BindStep == call'.op = "Bind" /\ call'.n # call.n

\* C13: a pending initial payload is consumed exactly once: the first Bind
\* after SetInitialData(d) uploads d, a Bind with no payload pending
\* uploads none, after every Bind no payload is pending, and only
\* SetInitialData makes one pending.
C13_PayloadConsumedOnce ==
    [][/\ BindStep =>
            LET pending == ssbo[Callee].initialData
                storage == gs'.store[call'.id]
            IN  /\ ssbo'[Callee].initialData = NilData
                /\ storage.alloc
                /\ pending.nil =>
                    /\ \A k \in DOMAIN storage.data : storage.data[k] = Uninit
                    /\ \A k \in DOMAIN gs'.log :
                        gs'.log[k].call = "NamedBufferData" => gs'.log[k].b = 0
                /\ ~pending.nil =>
                    \A k \in DOMAIN storage.data \cap DOMAIN pending.bytes :
                        storage.data[k] = pending.bytes[k]
       /\ \A o \in BufIds :
            (ssbo'[o].initialData # ssbo[o].initialData
                /\ ~ssbo'[o].initialData.nil) => call'.op = "SetInitialData"
      ]_vars

\* Bind uploaded a pending payload and none is pending any more.
C13_Witness ==
    /\ call.op = "Bind"
    /\ gs.store[call.id].alloc
    /\ gs.store[call.id].data[1] = 1
    /\ ObjOf(call.id).initialData = NilData

\* C14: Bind of an SSBO of size S whose pending payload has length L > S
\* uploads exactly the first S bytes of the payload into storage of exactly
\* S bytes, and raises no error.
C14_Truncation ==
    [][(/\ BindStep
        /\ ~ssbo[Callee].initialData.nil
        /\ Len(ssbo[Callee].initialData.bytes) > ssbo[Callee].Size) =>
            /\ gs'.store[call'.id].size = ssbo[Callee].Size
            /\ gs'.store[call'.id].data =
                    SubSeq(ssbo[Callee].initialData.bytes, 1, ssbo[Callee].Size)
            /\ call'.err = <<>>
            /\ call'.outcome = "returned"
      ]_vars

\* Bind was called on the 4-byte buffer with a 6-byte payload pending.
C14_Witness ==
    /\ call.op = "Bind"
    /\ ObjOf(call.id).Size = 4
    /\ gs.store[call.id].size = 4
    /\ gs.store[call.id].data = <<1, 2, 3, 4>>

\* The identifiers of the buffers registered in reg, and of all buffers.
RegIds(reg) == {ssbo[reg[k]].BufferID : k \in DOMAIN reg}
AllIds == {ssbo[o].BufferID : o \in BufIds}

\* How often the driver call c was made on buffer id in the last call.
Times(c, id) ==
    Cardinality({j \in DOMAIN gs.log : gs.log[j].call = c /\ gs.log[j].id = id})

\* C15: BufferObjects.Process attempts every entry of the registry exactly
\* once (one map call per entry, none on other buffers), also after an
\* earlier entry failed: every entry whose map succeeded had its callback,
\* and the error returned holds the error of every entry that failed and
\* of no other, so it is nil iff none failed.  BufferObjects.Bind uploads
\* every entry exactly once and returns nil.
C15_EveryEntryAttempted ==
    /\ (call.op = "BOProcess" /\ call.outcome = "returned") =>
        /\ \A id \in AllIds :
              Times("MapNamedBuffer", id) = IF id \in RegIds(bos) THEN 1 ELSE 0
        /\ CalledOn("SSBOCallback") = RegIds(bos) \ FailedMaps
        /\ Len(call.err) = Cardinality(FailedMaps)
        /\ {call.err[i] : i \in DOMAIN call.err} =
              {MapError(id) : id \in FailedMaps}
    /\ call.op = "BOBind" =>
        /\ \A id \in AllIds :
              Times("NamedBufferData", id) = IF id \in RegIds(bos) THEN 1 ELSE 0
        /\ call.err = <<>>

\* A registry-wide Process in which one entry failed to map and a later
\* entry was still attempted and had its callback.
C15_Witness ==
    /\ call.op = "BOProcess"
    /\ call.outcome = "returned"
    /\ call.err # <<>>
    /\ \E i, j \in DOMAIN gs.log :
        /\ i < j
        /\ gs.log[i].call = "MapNamedBuffer" /\ gs.log[i].a = 0
        /\ gs.log[j].call = "SSBOCallback"

\* Every entry of reg is filed under the identifier its buffer reports.
KeyedById(reg) == \A k \in DOMAIN reg : ssbo[reg[k]].BufferID = k

\* C16: in every registry built from empty by Set, Unset, Add and
\* DeleteBufferObjects (the caller's, the current specs' copy and the copy
\* held with every compiled program), the entry under key k is a buffer
\* whose GetBufferID() is k.
C16_KeyIsBufferID ==
    /\ KeyedById(bos)
    /\ KeyedById(cm.specs.BufferObjects)
    /\ \A i \in 1..Len(cm.programs) : KeyedById(cm.programs[i].specs.BufferObjects)

\* An Unset that left an entry in the caller's registry, while a compiled
\* program holds a copy, made by Add, of a registry of every buffer.
C16_Witness ==
    /\ call.op = "Unset"
    /\ bos # NoMap
    /\ call.id \notin DOMAIN bos
    /\ \E i \in 1..Len(cm.programs) :
        Cardinality(DOMAIN cm.programs[i].specs.BufferObjects) = NBuf

DeletesOf(log, id) ==
    Cardinality({j \in DOMAIN log : log[j].call = "DeleteBuffers" /\ log[j].id = id})

\* This step is a call of DeleteBufferObjects.
DeleteStep == call'.op = "DeleteBufferObjects" /\ call'.n # call.n

\* C18: DeleteBufferObjects deletes every buffer that was in the registry
\* when it was called exactly once, deletes no other buffer, and leaves
\* the registry empty.
C18_DeleteAll ==
    [][DeleteStep =>
        /\ \A id \in AllIds :
              DeletesOf(gs'.log, id) = IF id \in RegIds(bos) THEN 1 ELSE 0
        /\ Len(gs'.log) = Cardinality(DOMAIN bos)
        /\ bos' = NoMap]_vars

\* DeleteBufferObjects has run on a registry of every buffer.
C18_Witness ==
    /\ call.op = "DeleteBufferObjects"
    /\ \A id \in AllIds : DeletesOf(gs.log, id) = 1
    /\ bos = NoMap

\* The specs the last SetProgram was called with (the caller's registry is
\* the one in bos).
LastSpecs ==
    [Name |-> call.arg.Name, Version |-> "", Defines |-> call.arg.Defines,
     BufferObjects |-> bos]

\* This step is a SetProgram that follows a SetProgram which returned no
\* error, with specs that compare equal.
RepeatedSetProgram ==
    /\ call.op = "SetProgram"
    /\ call.err = <<>>
    /\ call'.op = "SetProgram"
    /\ call'.n = call.n + 1
    /\ call'.arg = call.arg

\* The compiled programs whose specs equal s.
CompiledFor(s) ==
    {i \in 1..Len(cm.programs) : equals(ssbo, cm.programs[i].specs, s)}

\* C19: of two consecutive SetProgram calls with specs that compare equal,
\* exactly one program is compiled for the specs, and the second call
\* reports (false, nil), makes no driver call and changes neither the
\* active program, the current specs, the cache nor a buffer binding.
C19_SetProgramTwice ==
    [][RepeatedSetProgram =>
        /\ Cardinality(CompiledFor(LastSpecs)) = 1
        /\ ~call'.changed
        /\ call'.err = <<>>
        /\ cm' = cm
        /\ ssbo' = ssbo
        /\ gs'.log = <<>>
        /\ gs'.program = gs.program
        /\ gs'.base = gs.base]_vars

\* The specs the SetProgram of this step is called with.
NewSpecs ==
    [Name |-> call'.arg.Name, Version |-> "", Defines |-> call'.arg.Defines,
     BufferObjects |-> bos]

\* This step is a SetProgram with specs that differ from the current specs
\* and equal those of a compiled program.
CacheHitStep ==
    /\ call'.op = "SetProgram"
    /\ call'.n # call.n
    /\ ~equals(ssbo, cm.specs, NewSpecs)
    /\ CompiledFor(NewSpecs) # {}

\* C20: a SetProgram with specs that differ from the current specs and
\* equal those of a cache entry makes one driver call, the activation of
\* that entry's program (nothing is preprocessed, compiled or bound,
\* whatever the shader tables hold and whether or not a build would
\* succeed), sets the current specs to a copy of the specs requested,
\* leaves the cache unchanged and returns (true, nil).
C20_CacheHit ==
    [][CacheHitStep =>
        /\ call'.changed
        /\ call'.err = <<>>
        /\ cm' = [cm EXCEPT !.specs = copy(NewSpecs)]
        /\ ssbo' = ssbo
        /\ \E i \in CompiledFor(NewSpecs) :
            /\ gs'.program = cm.programs[i].program
            /\ gs'.log = <<Ev("UseProgram", cm.programs[i].program, 0, 0)>>
        /\ gs'.base = gs.base
        /\ gs'.store = gs.store]_vars

\* With two programs compiled, a SetProgram has made the first the active
\* one again.
C20_Witness ==
    /\ call.op = "SetProgram"
    /\ call.changed
    /\ Len(cm.programs) = MaxPrograms
    /\ gs.program = 1
    /\ Len(gs.log) = 1

\* How often the driver call c was made on buffer id in the calls log.
TimesIn(log, c, id) ==
    Cardinality({j \in DOMAIN log : log[j].call = c /\ log[j].id = id})

\* No two buffers of the registry reg have one binding index.
UniqueBindings(reg) ==
    \A k1, k2 \in DOMAIN reg :
        ssbo[reg[k1]].BindingIndex = ssbo[reg[k2]].BindingIndex => k1 = k2

\* This step is a SetProgram with specs that equal neither the current
\* specs nor those of a compiled program, and it returned no error.
CacheMissStep ==
    /\ call'.op = "SetProgram"
    /\ call'.n # call.n
    /\ ~equals(ssbo, cm.specs, NewSpecs)
    /\ CompiledFor(NewSpecs) = {}
    /\ call'.err = <<>>

\* C21: a SetProgram with specs that equal neither the current specs nor
\* those of a cache entry, when the program is generated, uploads and
\* attaches every buffer of the specs' registry once (and no other buffer)
\* before it activates the new program, which is its last driver call;
\* it appends one entry, the new program with a copy of the specs, to the
\* cache, makes that copy the current specs and returns (true, nil).  With
\* the binding indices of the registry distinct, each of its buffers is
\* then the one attached at its index.
C21_CacheMiss ==
    [][CacheMissStep =>
        /\ call'.changed
        /\ gs'.program \notin {cm.programs[i].program : i \in 1..Len(cm.programs)}
        /\ cm' = [cm EXCEPT !.specs = copy(NewSpecs),
                            !.programs = Append(@, [program |-> gs'.program,
                                                    specs |-> copy(NewSpecs)])]
        /\ gs'.log # <<>>
        /\ gs'.log[Len(gs'.log)] = Ev("UseProgram", gs'.program, 0, 0)
        /\ TimesIn(gs'.log, "UseProgram", gs'.program) = 1
        /\ \A id \in AllIds :
            /\ TimesIn(gs'.log, "NamedBufferData", id) =
                    IF id \in RegIds(bos) THEN 1 ELSE 0
            /\ TimesIn(gs'.log, "BindBufferBase", id) =
                    IF id \in RegIds(bos) THEN 1 ELSE 0
            /\ id \in RegIds(bos) =>
                /\ UniqueBindings(bos) => gs'.base[ObjOf(id).BindingIndex] = id
                /\ gs'.store[id].alloc]_vars

\* A SetProgram has compiled a program for specs with every buffer in the
\* registry: the buffers were bound, then the program activated.
C21_Witness ==
    /\ call.op = "SetProgram"
    /\ call.changed
    /\ Cardinality(DOMAIN bos) = NBuf
    /\ Len(cm.programs) = 1
    /\ cm.specs.BufferObjects = bos
    /\ \A id \in AllIds : TimesIn(gs.log, "BindBufferBase", id) = 1
    /\ gs.log[Len(gs.log)].call = "UseProgram"

\* This step is a call of SetProgram.
SetProgramStep == call'.op = "SetProgram" /\ call'.n # call.n

\* Generating a program for the specs of this step fails before the build:
\* the program or its shader is not registered, or preprocessing fails.
CannotGenerate ==
    \A order \in Orders(DOMAIN NewSpecs.Defines) :
        GenProgram(cm, copy(NewSpecs), order, TRUE).err # ""

\* C22: when SetProgram has to generate a program and cannot (program or
\* shader name not registered, preprocessing fails), it returns an error;
\* and whenever SetProgram returns an error (those cases and a failed
\* build), it reports unchanged, makes no driver call, and the active
\* program, the current specs, the cache, the buffers and every binding
\* are as before the call.
C22_FailureLeavesState ==
    [][SetProgramStep =>
        /\ (/\ ~equals(ssbo, cm.specs, NewSpecs)
            /\ CompiledFor(NewSpecs) = {}
            /\ CannotGenerate) => call'.err # <<>>
        /\ call'.err # <<>> =>
            /\ ~call'.changed
            /\ cm' = cm
            /\ ssbo' = ssbo
            /\ gs'.log = <<>>
            /\ gs'.program = gs.program
            /\ gs'.base = gs.base
            /\ gs'.store = gs.store]_vars

\* A SetProgram returned an error while a program compiled before is the
\* active one and buffers are attached.
C22_Witness ==
    /\ call.op = "SetProgram"
    /\ call.err # <<>>
    /\ gs.program # 0
    /\ cm.programs # <<>>
    /\ \E i \in Bindings : gs.base[i] # 0

\* The calls by which the caller writes to a map of the specs it holds.
CallerWrites == {"Set", "Unset", "Add", "DeleteBufferObjects", "Define"}

\* This step is a write of the caller to a map of its specs.
CallerWriteStep == call'.op \in CallerWrites /\ call'.n # call.n

\* C23: a write of the caller to the defines or the buffer registry of the
\* specs it holds (an entry added, removed or changed) changes neither the
\* current specs nor the specs of a cache entry; and a SetProgram that
\* follows such a write, with specs equal to those a program was compiled
\* for, compiles nothing and, where it changes the program, activates the
\* one compiled for them.
C23_SpecIsolation ==
    [][/\ CallerWriteStep => cm' = cm
       /\ (SetProgramStep /\ call.op \in CallerWrites) =>
            \A i \in CompiledFor(NewSpecs) :
                /\ cm'.programs = cm.programs
                /\ call'.err = <<>>
                /\ call'.changed => gs'.program = cm.programs[i].program]_vars

\* After a program was compiled for the caller's specs, the caller has
\* written to its registry and to its defines: both differ from the maps
\* of the current specs and of the cache entry.
C23_Witness ==
    /\ call.op = "Define"
    /\ Len(cm.programs) = 1
    /\ cm.specs = cm.programs[1].specs
    /\ call.arg # cm.specs.Defines
    /\ bos # cm.specs.BufferObjects
    /\ bos # NoMap

\* C24: in every Compute call the first driver call is the dispatch over
\* the work groups given, the second the memory barrier, and every call
\* made for a buffer (binding, mapping, callback, unmapping) comes after
\* both; the call makes one dispatch and one barrier.
C24_DispatchBarrierProcess ==
    call.op = "Compute" =>
        /\ Len(gs.log) >= 2
        /\ gs.log[1] = Ev("DispatchCompute", WorkGroups[1], WorkGroups[2],
                          WorkGroups[3])
        /\ gs.log[2] = Ev("MemoryBarrier", 0, 0, 0)
        /\ \A j \in 3..Len(gs.log) :
              gs.log[j].call \in {"BindBuffer", "MapNamedBuffer", "SSBOCallback",
                                  "UnmapNamedBuffer"}

\* A Compute call mapped every buffer of a registry of all buffers after
\* its dispatch and barrier.
C24_Witness ==
    /\ call.op = "Compute"
    /\ call.outcome = "returned"
    /\ \A id \in AllIds :
        \E j \in 3..Len(gs.log) :
            gs.log[j] = Ev("MapNamedBuffer", id, 1, 0)

\* This step is a Compute that returned, in which no map call failed, and
\* it follows a SetProgram, for the caller's specs, that returned no error.
ComputeAfterSetProgram ==
    /\ call.op = "SetProgram"
    /\ call.err = <<>>
    /\ call'.op = "Compute"
    /\ call'.n = call.n + 1
    /\ call'.outcome = "returned"
    /\ \A j \in DOMAIN gs'.log :
          gs'.log[j].call = "MapNamedBuffer" => gs'.log[j].a = 1

\* C25: a Compute that follows a successful SetProgram(spec), every map
\* call succeeding, calls the callback of every buffer in the registry of
\* spec once, each with a view of the buffer's Size and the deltaTime
\* given, and the callback of no other buffer.
C25_EndToEnd ==
    [][ComputeAfterSetProgram =>
        /\ \A id \in AllIds :
              TimesIn(gs'.log, "SSBOCallback", id) =
                  IF id \in RegIds(bos) THEN 1 ELSE 0
        /\ \A j \in DOMAIN gs'.log :
              gs'.log[j].call = "SSBOCallback" =>
                  /\ gs'.log[j].a = ObjOf(gs'.log[j].id).Size
                  /\ gs'.log[j].b = call'.dt]_vars

\* The five calls AddShader, AddProgram, Add of every buffer, SetProgram
\* and Compute were made in an order in which the program was compiled,
\* and the Compute has called the callback of every buffer.
C25_Witness ==
    /\ call.op = "Compute"
    /\ call.outcome = "returned"
    /\ call.n = 5
    /\ Len(cm.programs) = 1
    /\ cm.specs.BufferObjects = bos
    /\ Cardinality(DOMAIN bos) = NBuf
    /\ \A id \in AllIds : TimesIn(gs.log, "SSBOCallback", id) = 1

\* The "#version" and "#define" lines preprocess put before the source.
PPPrefix ==
    <<Tok("ver", "GLSL_VERSION", "", <<>>)>>
        \o [i \in 1..Len(pp.order) |->
                Tok("def", pp.order[i], "", pp.defines[pp.order[i]])]

\* The expansion of the text x, and of the chunk the directive t names,
\* with the library and defines preprocess was called with.
PP(x) == processIncludes(pp.includes, x, pp.defines, MaxDepth)
ChunkOf(t) ==
    processIncludes(pp.includes, pp.includes[t.s], pp.defines, MaxDepth - 1)

\* The chunk the directive t names is registered and expands.
ChunkExpands(t) ==
    /\ t.s \in DOMAIN pp.includes
    /\ pp.includes[t.s] # <<>>
    /\ ChunkOf(t).err = ""

\* The source before and after its i-th token; both expand.
Before(i) == SubSeq(pp.source, 1, i - 1)
After(i) == SubSeq(pp.source, i + 1, Len(pp.source))
ContextExpands(i) == PP(Before(i)).err = "" /\ PP(After(i)).err = ""

\* preprocess succeeded and its output has e at the place of token i.
ExpandsTo(i, e) ==
    /\ pp.err = ""
    /\ pp.out = PPPrefix \o PP(Before(i)).out \o e \o PP(After(i)).out

\* Token i of the source is a parameterized directive whose quantity
\* variable is defined, resp. a plain directive.
CountedAt(i) ==
    /\ pp.source[i].k = "inc"
    /\ pp.source[i].q # ""
    /\ pp.source[i].q \in DOMAIN pp.defines
PlainAt(i) == pp.source[i].k = "inc" /\ pp.source[i].q = ""

\* The value the directive at i is counted by.
CountAt(i) == pp.defines[pp.source[i].q]

\* The characters cs are a decimal numeral.
Numeral(cs) == cs # <<>> /\ \A j \in 1..Len(cs) : IsDigit(cs[j])

\* C26: a directive "#include <chunk>[countVar]" whose countVar is defined
\* as 0 expands to nothing: preprocessing succeeds and nothing stands at
\* the place of the directive.
C26_ZeroCount ==
    pp.ran =>
        \A i \in DOMAIN pp.source :
            (/\ CountedAt(i)
             /\ CountAt(i) = <<"0">>
             /\ ChunkExpands(pp.source[i])
             /\ ContextExpands(i)) => ExpandsTo(i, <<>>)

\* C27: a directive "#include <chunk>[countVar]" whose countVar is not
\* among the defines expands to nothing and does not make preprocessing
\* fail, whatever the library holds under the chunk's name.
C27_AbsentCount ==
    pp.ran =>
        \A i \in DOMAIN pp.source :
            (/\ pp.source[i].k = "inc"
             /\ pp.source[i].q # ""
             /\ pp.source[i].q \notin DOMAIN pp.defines
             /\ ContextExpands(i)) => ExpandsTo(i, <<>>)

\* n copies of unit, the index parameter replaced by 0 in the first, 1 in
\* the second, and so on.
CopiesOf(unit, n) ==
    [j \in 1..(n * Len(unit)) |->
        LET u == unit[((j - 1) % Len(unit)) + 1]
        IN  IF u = IndexParameter THEN Txt(Itoa((j - 1) \div Len(unit))) ELSE u]

\* C28: a directive "#include <chunk>[countVar]" whose countVar is defined
\* as a numeral n > 0 expands to n copies, in order, of what the plain
\* directive expands to (a newline, then the chunk with its own includes
\* expanded), every index parameter of the k-th copy (k = 0..n-1) replaced
\* by the decimal k.
C28_Repeated ==
    pp.ran =>
        \A i \in DOMAIN pp.source :
            (/\ CountedAt(i)
             /\ Numeral(CountAt(i))
             /\ ParseDigits(CountAt(i), 0) > 0
             /\ ChunkExpands(pp.source[i])
             /\ ContextExpands(i)) =>
                ExpandsTo(i, CopiesOf(<<NL>> \o ChunkOf(pp.source[i]).out,
                                      ParseDigits(CountAt(i), 0)))

\* The directive for chunk B, which includes chunk A, counted by N = 2,
\* was expanded: the index parameter of A became 0 and then 1.
C28_Witness ==
    /\ pp.ran
    /\ pp.err = ""
    /\ pp.source = <<Txt("m"), IncN("B", "N")>>
    /\ pp.defines = [n \in {"N"} |-> <<"2">>]
    /\ pp.out = <<Tok("ver", "GLSL_VERSION", "", <<>>),
                  Tok("def", "N", "", <<"2">>), Txt("m"),
                  NL, Txt("b"), NL, Txt("a"), Txt("0"),
                  NL, Txt("b"), NL, Txt("a"), Txt("1")>>

\* C29: a plain directive "#include <chunk>" is replaced by a newline and
\* the chunk's source with the chunk's own includes expanded (no directive
\* is left in the output); if the chunk is not in the library,
\* preprocessing returns an error and no source.
C29_PlainInclude ==
    pp.ran =>
        /\ pp.err = "" => \A j \in DOMAIN pp.out : pp.out[j].k # "inc"
        /\ \A i \in DOMAIN pp.source :
            /\ (/\ PlainAt(i)
                /\ ChunkExpands(pp.source[i])
                /\ ContextExpands(i)) =>
                    ExpandsTo(i, <<NL>> \o ChunkOf(pp.source[i]).out)
            /\ (PlainAt(i) /\ pp.source[i].s \notin DOMAIN pp.includes) =>
                    (pp.err # "" /\ pp.out = <<>>)

\* The plain directive for chunk B, which includes chunk A, was expanded.
C29_Witness ==
    /\ pp.ran
    /\ pp.err = ""
    /\ pp.source = <<Inc("B"), Txt("m")>>
    /\ pp.out = PPPrefix \o <<NL, Txt("b"), NL, Txt("a"), IndexParameter,
                               Txt("m")>>

\* C30: for a directive "#include <chunk>[countVar]" whose countVar is
\* defined, preprocessing returns an error and no source whenever the
\* value is not a non-negative integer (text that is no number, a negative
\* number).
C30_BadCount ==
    pp.ran =>
        \A i \in DOMAIN pp.source :
            (CountedAt(i) /\ ~Numeral(CountAt(i))) =>
                (pp.err # "" /\ pp.out = <<>>)

\* The registered chunks the text x includes, and those it includes
\* directly or through chunks.
Included(x) ==
    {x[j].s : j \in {k \in DOMAIN x : x[k].k = "inc"}}
        \cap {c \in DOMAIN pp.includes : pp.includes[c] # <<>>}

RECURSIVE Closure(_, _)
Closure(cs, n) ==
    IF n = 0 THEN cs
    ELSE Closure(cs \cup UNION {Included(pp.includes[c]) : c \in cs}, n - 1)

Reachable(x) == Closure(Included(x), Cardinality(DOMAIN pp.includes))

\* Chunk c includes itself, directly or through chunks.
Cyclic(c) == c \in Reachable(pp.includes[c])

\* The text x holds one directive, and that of a registered chunk.
OneWay(x) ==
    /\ Len(SelectSeq(x, LAMBDA t : t.k = "inc")) = 1
    /\ Included(x) # {}

\* The first directive of the source names a registered chunk from which
\* the expansion has one way to go, every chunk on it holding a single
\* directive of a registered chunk: it comes back to a chunk it is in.
EntersCycle ==
    LET ds == SelectSeq(pp.source, LAMBDA t : t.k = "inc")
    IN  /\ ds # <<>>
        /\ OneWay(<<ds[1]>>)
        /\ \A c \in Reachable(<<ds[1]>>) : OneWay(pp.includes[c])

\* C31: preprocessing returns (a source or an error) whenever no chunk
\* that the source includes, directly or through chunks, includes itself;
\* and there is no guard against a cycle: when the expansion enters a
\* chunk that includes itself, directly or through another chunk, it does
\* not return, also where the directive closing the cycle is counted by a
\* variable that is not defined.
C31_Termination ==
    pp.ran =>
        /\ (\A c \in Reachable(pp.source) : ~Cyclic(c)) => pp.err # "no return"
        /\ EntersCycle => pp.err = "no return"

\* The expansion did not return from chunk P, which includes itself by a
\* directive counted by N, with N not defined.
C31_Witness ==
    /\ pp.ran
    /\ pp.err = "no return"
    /\ pp.source = <<Txt("m"), IncN("P", "N")>>
    /\ pp.defines = NoMap

\* ------------------------------------------------------------------
\* The pipeline over sequences of calls.

\* The buffers of the current specs' registry.
CurrentBuffers ==
    {cm.specs.BufferObjects[k] : k \in DOMAIN cm.specs.BufferObjects}

\* C32: whenever SetProgram has returned (true, nil), every buffer of the
\* now-current specs' registry is the buffer attached at its own binding
\* index (the binding indices within the registry being distinct), also
\* when the program came from the cache and another buffer was attached
\* at the index in between.
C32_BuffersAttached ==
    (/\ call.op = "SetProgram"
     /\ call.changed
     /\ call.err = <<>>
     /\ UniqueBindings(cm.specs.BufferObjects)) =>
        \A o \in CurrentBuffers :
            gs.base[ssbo[o].BindingIndex] = ssbo[o].BufferID

\* The compiled programs whose specs equal the current specs.
CurrentEntries == CompiledFor(cm.specs)

\* C33: once a SetProgram has returned without error, a program is active
\* and it is the program of the cache entry whose specs equal the current
\* specs; this includes the first call, made with the zero-value specs.
C33_ActiveProgramIsCurrent ==
    (call.op = "SetProgram" /\ call.err = <<>>) =>
        /\ gs.program # 0
        /\ \E i \in CurrentEntries : gs.program = cm.programs[i].program

\* No two entries of the cache c have specs that compare equal.
DuplicateFree(objs, c) ==
    \A i, j \in 1..Len(c.programs) :
        equals(objs, c.programs[i].specs, c.programs[j].specs) => i = j

\* C34: the program cache is append-only and duplicate-free: no call
\* makes it shorter, changes or reorders the entries it holds, or appends
\* more than one entry, and no two entries have specs that compare equal.
C34_CacheAppendOnly ==
    [][/\ Len(cm'.programs) >= Len(cm.programs)
       /\ Len(cm'.programs) <= Len(cm.programs) + 1
       /\ SubSeq(cm'.programs, 1, Len(cm.programs)) = cm.programs
       /\ DuplicateFree(ssbo', cm')]_vars

\* A SetProgram has compiled a second program and appended it to the
\* cache, behind the entry of the first.
C34_Witness ==
    /\ call.op = "SetProgram"
    /\ call.changed
    /\ Len(cm.programs) = 2
    /\ cm.programs[1].program = 1
    /\ cm.programs[2].program = 2
    /\ gs.program = 2
    /\ ~equals(ssbo, cm.programs[1].specs, cm.programs[2].specs)

\* C35: after SSBO.Process has returned, successfully or with a mapping
\* error, the buffer is not mapped and the SHADER_STORAGE_BUFFER target is
\* bound to 0.
C35_ProcessLeavesUnbound ==
    (call.op = "Process" /\ call.outcome = "returned") =>
        /\ call.id \notin gs.mapped
        /\ gs.target = 0

\* The number of bytes the pending payload of the SSBO s holds.
Pending(s) == IF s.initialData.nil THEN 0 ELSE Len(s.initialData.bytes)

\* C36: Bind never makes the driver read more bytes through the payload
\* pointer than the pending payload holds: with a payload of length L
\* below the size of the SSBO at most L bytes are read, with no payload
\* pending none is read.
C36_NoOverRead ==
    [][BindStep =>
        \A j \in DOMAIN gs'.log :
            gs'.log[j].call = "NamedBufferData" =>
                gs'.log[j].b <= Pending(ssbo[Callee])]_vars

\* The driver calls Process makes on a buffer.
ProcessCalls == {"BindBuffer", "MapNamedBuffer", "SSBOCallback"}

\* This step is a call of Compute.
ComputeStep == call'.op = "Compute" /\ call'.n # call.n

\* C37: no buffer is mapped or handed to its callback after it has been
\* deleted: a Compute never processes a buffer on which Delete has been
\* called, that is, it makes none of the driver calls of Process on the
\* identifier of a deleted buffer.
C37_NoProcessAfterDelete ==
    [][ComputeStep =>
        \A j \in DOMAIN gs'.log :
            gs'.log[j].call \in ProcessCalls => gs'.log[j].id \notin gs.deleted]_vars

====
